---- MODULE Spec2Model ----
(***************************************************************************)
(* Treasury transaction fetcher (src/transaction_fetcher.py): the on-disk  *)
(* transaction cache, the transfer classifier and the paginated fetch.     *)
(*                                                                         *)
(* Numbers.  Python computes amounts and USD values in floating point.     *)
(* Here a decimal number is kept exactly, as a record [n, d] that stands   *)
(* for n / 10^d, so that a comparison against the minimum value is the     *)
(* comparison the code makes on the mathematical value.                    *)
(*                                                                         *)
(* Dictionaries.  A Python dict is a TLA+ record; a key the dict lacks is  *)
(* a field the record lacks, and dict.get(k, default) is Get(r, k, dflt).  *)
(***************************************************************************)
EXTENDS Integers, Sequences, FiniteSets, TLC

(***************************************************************************)
(* Bounds of the model.                                                    *)
(***************************************************************************)
\* largest max_pages argument a call is made with
MaxPages == 2
\* largest number of transfer records on one page (the code asks for 40)
MaxPageLen == 1

(***************************************************************************)
(* Configuration of the program.                                           *)
(***************************************************************************)
MIN_VALUE_USD == 1000

FALLBACK_SOL_PRICE == 150

DEFAULT_DECIMALS == 6

TREASURY_ADDRESS == "Cvnta5ecoiCgNbLEXYm6kvhJMmRv3JM3ksKgTLVPg4hk"

ADDRESS_TAGS ==
  [ 5AZYLkiU4SPYDeRMcPbPRPmiz2Ny85jWFeV4xmQsVBNo |-> "Fluid Team",
    HUBLSmfDxXxxzgg4KM6Q5onHVwBG5KeKjeA2BnvE5D9r |-> "Fluid Team",
    7b1zZUuae2F56e66GqpkKe1Tq1BK2ePRRuGGr8ahe2JB |-> "JUP Team",
    FH9bgRZrEGFA1d4859wSBdNnHgtU5ZDqFUPccHDnYQ3p |-> "Maple",
    DVBfCpHoAtVgcVLFHyUgXaWg5ZaKU8CkekXu23ZD4iod |-> "Gauntlet",
    fr6yQkDmWy6R6pecbUsxXaw6EvRJznZ2HsK5frQgud8 |-> "USDG Team",
    8sjM83a4u2M8YZYshLGKzYxh1VHFfbgtaytwaoEg4bUJ |-> "Jito Team",
    8JmDPG5BFQ6gpUPJV9xBixYJLqTKCSNotkXksTmNsQfj |-> "Sky Team",
    62SJTxjWbyaPei1HPW9mFX7KMYCEp7Z9zwiL4hGa8WQv |-> "LBTC Team",
    EeQmNqm1RcQnee8LTyx6ccVG9FnR8TezQuw2JXq2LC1T |-> "Sanctum INF Team",
    41zCUJsKk6cMB94DDtm99qWmyMZfp4GkAhhuz4xTwePu |-> "PST Team",
    JANAjsZKJhtHF9PUF8cwjVp5oQjdcHYiGiFgc8TWQjp2 |-> "Binance Campaign",
    3ssDYFbTpACkshGeYHMBovxB4aE2G6fbZNeVChi85J1k |-> "Binance Campaign",
    7s1da8DduuBFqGra5bJBjpnvL5E9mGzCuMk1Qkh4or2Z |-> "Liquidity Layer" ]

STABLECOINS == {"USDC", "USDT", "USDS", "USDG", "EURC"}

NATIVE_SYMBOLS == {"SOL", "WSOL"}

(***************************************************************************)
(* Helpers: dict.get, decimal numbers.                                     *)
(***************************************************************************)
Get(r, k, dflt) == IF k \in DOMAIN r THEN r[k] ELSE dflt

RECURSIVE Pow10(_)
Pow10(d) == IF d = 0 THEN 1 ELSE 10 * Pow10(d - 1)

\* raw / 10 ** decimals
Div10(raw, decimals) == [n |-> raw, d |-> decimals]

\* x * k for a whole number k
Times(x, k) == [n |-> x.n * k, d |-> x.d]

\* a whole number as a decimal
Whole(k) == [n |-> k, d |-> 0]

\* x < m and x >= m for a whole number m
Less(x, m) == x.n < m * Pow10(x.d)

AtLeast(x, m) == x.n >= m * Pow10(x.d)

(***************************************************************************)
(* Timestamps.  A string is [date, frac, zone]: the date-and-time part,    *)
(* the printed microseconds (0: no fractional part is printed) and the     *)
(* zone suffix ("", "Z" or "+00:00").  A datetime is [date, microsecond,   *)
(* tzinfo].  The empty string has date = "".                               *)
(***************************************************************************)
EmptyString == [date |-> "", frac |-> 0, zone |-> ""]

IsStr(x) == "zone" \in DOMAIN x

IsDatetime(x) == "tzinfo" \in DOMAIN x

\* s.replace('Z', '+00:00')
ReplaceZ(s) == IF s.zone = "Z" THEN [s EXCEPT !.zone = "+00:00"] ELSE s

\* datetime.fromisoformat(s) raises ValueError
Unparseable(s) == s.date = ""

\* datetime.fromisoformat(s), for a string it accepts
fromisoformat(s) ==
  [date |-> s.date, microsecond |-> s.frac,
   tzinfo |-> IF s.zone = "" THEN "None" ELSE "UTC"]

isoformat_seconds(dt) ==
  [date |-> dt.date, frac |-> 0,
   zone |-> IF dt.tzinfo = "None" THEN "" ELSE "+00:00"]

\* dt.isoformat()
isoformat(dt) ==
  [date |-> dt.date, frac |-> dt.microsecond,
   zone |-> IF dt.tzinfo = "None" THEN "" ELSE "+00:00"]

(***************************************************************************)
(* The transaction cache: the file CACHE_FILE.                             *)
(***************************************************************************)
NoFile == [exists |-> FALSE]

\* (None, None)
NoneNone == [found |-> FALSE, transactions |-> <<>>, last_updated |-> EmptyString]

load_from_cache(file) ==
  IF file.exists
  THEN IF \E i \in DOMAIN file.transactions :
            /\ IsStr(file.transactions[i].timestamp)
            /\ Unparseable(file.transactions[i].timestamp)
       THEN NoneNone
       ELSE [found |-> TRUE,
             transactions |->
               [i \in DOMAIN file.transactions |->
                  IF IsStr(file.transactions[i].timestamp)
                  THEN [file.transactions[i] EXCEPT !.timestamp = fromisoformat(@)]
                  ELSE file.transactions[i]],
             last_updated |-> file.last_updated]
  ELSE NoneNone

\* the records as written to the file: tx.copy() with the timestamp as a string
serializable(transactions) ==
  [i \in DOMAIN transactions |->
     IF IsDatetime(transactions[i].timestamp)
     THEN [transactions[i] EXCEPT !.timestamp = isoformat(@)]
     ELSE transactions[i]]

save_to_cache_in_place(transactions, now) ==
  [file |-> [exists |-> TRUE, last_updated |-> isoformat(now),
             transactions |-> serializable(transactions)],
   transactions |-> serializable(transactions)]

\* save_to_cache(transactions): the file afterwards, and the caller's list
\* afterwards (the function works on copies of its records)
save_to_cache(transactions, now) ==
  [file |-> [exists |-> TRUE, last_updated |-> isoformat(now),
             transactions |-> serializable(transactions)],
   transactions |-> transactions]

clear_cache_reports_true(file) == [file |-> NoFile, returned |-> TRUE]

\* clear_cache(): the file afterwards and the value returned
clear_cache(file) ==
  IF file.exists THEN [file |-> NoFile, returned |-> TRUE]
                 ELSE [file |-> file, returned |-> FALSE]

(***************************************************************************)
(* get_sol_price: the price of the first vault whose supply token is WSOL. *)
(* A response is [ok, vaults]; ok = FALSE stands for any exception raised  *)
(* by the request or by the decoding of its body.                          *)
(***************************************************************************)
RECURSIVE first_wsol_price(_)
first_wsol_price(vaults) ==
  IF vaults = <<>> THEN FALLBACK_SOL_PRICE
  ELSE IF Get(Get(Head(vaults), "supplyToken", <<>>), "symbol", "") = "WSOL"
       THEN Head(vaults).supplyToken.price
       ELSE first_wsol_price(Tail(vaults))

get_sol_price_last_listed(response) ==
  IF response.ok /\ response.vaults # <<>>
  THEN response.vaults[Len(response.vaults)].supplyToken.price
  ELSE FALLBACK_SOL_PRICE

get_sol_price(response) ==
  IF response.ok THEN first_wsol_price(response.vaults) ELSE FALLBACK_SOL_PRICE

(***************************************************************************)
(* process_transactions: the classifier.  The result is [raised,           *)
(* processed]; raised = TRUE stands for the ValueError of an unparseable   *)
(* timestamp, which leaves the function at once.                           *)
(***************************************************************************)
tx_type(tx) == IF Get(tx, "flow", "") = "in" THEN "Inflow" ELSE "Outflow"

counterparty_always_from(tx) == Get(tx, "from_address", "")

counterparty(tx) ==
  IF Get(tx, "flow", "") = "in" THEN Get(tx, "from_address", "")
                                ELSE Get(tx, "to_address", "")

team(tx) == Get(ADDRESS_TAGS, counterparty(tx), "Unknown")

token_symbol(tx, tokens_meta) ==
  Get(Get(tokens_meta, Get(tx, "token_address", ""), <<>>), "token_symbol", "UNKNOWN")

amount(tx) == Div10(Get(tx, "amount", 0), Get(tx, "token_decimals", DEFAULT_DECIMALS))

value_usd_from_source(tx, tokens_meta, sol_price) == Whole(Get(tx, "value", 0))

value_usd(tx, tokens_meta, sol_price) ==
  IF token_symbol(tx, tokens_meta) \in STABLECOINS THEN Times(amount(tx), 1)
  ELSE IF token_symbol(tx, tokens_meta) \in NATIVE_SYMBOLS THEN Times(amount(tx), sol_price)
  ELSE Whole(Get(tx, "value", 0))

below_minimum_inclusive(v) == ~ AtLeast(v, MIN_VALUE_USD + 1)

\* value_usd < MIN_VALUE_USD: the record is skipped
below_minimum(v) == Less(v, MIN_VALUE_USD)

timestamp_string(tx) == ReplaceZ(Get(tx, "time", EmptyString))

parse_never_fails(tx) == FALSE

\* datetime.fromisoformat(...) raises for this record (line 176)
parse_fails(tx) == Unparseable(timestamp_string(tx))

classified(tx, tokens_meta, sol_price) ==
  [signature |-> Get(tx, "trans_id", ""),
   timestamp |-> fromisoformat(timestamp_string(tx)),
   type |-> tx_type(tx),
   token |-> token_symbol(tx, tokens_meta),
   amount |-> amount(tx),
   value_usd |-> value_usd(tx, tokens_meta, sol_price),
   counterparty |-> counterparty(tx),
   team |-> team(tx),
   block_id |-> Get(tx, "block_id", 0)]

RECURSIVE process_loop(_, _, _, _)
process_loop(raw_data, tokens_meta, sol_price, processed) ==
  IF raw_data = <<>> THEN [raised |-> FALSE, processed |-> processed]
  ELSE IF below_minimum(value_usd(Head(raw_data), tokens_meta, sol_price))
       THEN process_loop(Tail(raw_data), tokens_meta, sol_price, processed)
       ELSE IF parse_fails(Head(raw_data))
            THEN [raised |-> TRUE, processed |-> <<>>]
            ELSE process_loop(Tail(raw_data), tokens_meta, sol_price,
                   Append(processed, classified(Head(raw_data), tokens_meta, sol_price)))

process_transactions(raw_data, metadata, sol_price) ==
  process_loop(raw_data, Get(metadata, "tokens", <<>>), sol_price, <<>>)

(***************************************************************************)
(* What the two remote services may answer.                                *)
(***************************************************************************)
USDC_MINT == "EPjFWdd5AufqSSqeM2qN1xzybapC8G4wEGGkZwyTDt1v"

SOL_MINT == "So11111111111111111111111111111111111111112"

JUP_MINT == "JUPyiwrYJFskUPiHa7hkeR8VUtAeFoSYbKedZNsDvCN"

UNLISTED_MINT == "UnlistedMint1111111111111111111111111111111"

\* the metadata of a transfer page: token address -> token description
PageMetadata ==
  [tokens |->
     [ EPjFWdd5AufqSSqeM2qN1xzybapC8G4wEGGkZwyTDt1v |-> [token_symbol |-> "USDC"],
       So11111111111111111111111111111111111111112 |-> [token_symbol |-> "SOL"],
       JUPyiwrYJFskUPiHa7hkeR8VUtAeFoSYbKedZNsDvCN |-> [token_symbol |-> "JUP"] ]]

\* a stablecoin inflow worth exactly the minimum, from a tagged address
TxExact ==
  [trans_id |-> "sigA", flow |-> "in",
   from_address |-> "5AZYLkiU4SPYDeRMcPbPRPmiz2Ny85jWFeV4xmQsVBNo",
   to_address |-> TREASURY_ADDRESS, token_address |-> USDC_MINT,
   amount |-> 1000000000, token_decimals |-> 6, block_id |-> 101,
   time |-> [date |-> "2025-09-01T10:00:00", frac |-> 0, zone |-> "Z"]]

\* a stablecoin inflow of 5.0, without a time
TxSmall ==
  [trans_id |-> "sigB", flow |-> "in",
   from_address |-> "7b1zZUuae2F56e66GqpkKe1Tq1BK2ePRRuGGr8ahe2JB",
   to_address |-> TREASURY_ADDRESS, token_address |-> USDC_MINT,
   amount |-> 5000000, token_decimals |-> 6, block_id |-> 102]

\* a native-asset outflow of 5 SOL to an untagged address, decimals absent
TxSol ==
  [trans_id |-> "sigC", flow |-> "out",
   from_address |-> TREASURY_ADDRESS,
   to_address |-> "9xQeWvG816bUx9EPjHmaT23yvVM2ZWbrrpZb9PusVFin",
   token_address |-> SOL_MINT, amount |-> 5000000, value |-> 3, block_id |-> 103,
   time |-> [date |-> "2025-09-02T11:30:00", frac |-> 250000, zone |-> "+00:00"]]

\* a transfer of a token the metadata does not list, valued by the source,
\* whose time is the empty string
TxNoTime ==
  [trans_id |-> "sigD", flow |-> "out",
   from_address |-> TREASURY_ADDRESS,
   to_address |-> "FH9bgRZrEGFA1d4859wSBdNnHgtU5ZDqFUPccHDnYQ3p",
   token_address |-> UNLISTED_MINT, amount |-> 7000000, token_decimals |-> 6,
   value |-> 2500, block_id |-> 104, time |-> EmptyString]

\* a transfer of another token, valued by the source, no flow flag, naive time
TxOther ==
  [trans_id |-> "sigA",
   from_address |-> "DVBfCpHoAtVgcVLFHyUgXaWg5ZaKU8CkekXu23ZD4iod",
   to_address |-> TREASURY_ADDRESS, token_address |-> JUP_MINT,
   amount |-> 300000000, token_decimals |-> 6, value |-> 1500, block_id |-> 105,
   time |-> [date |-> "2025-09-03T09:15:00", frac |-> 0, zone |-> ""]]

RawRecords == {TxExact, TxSmall, TxSol, TxNoTime, TxOther}

RECURSIVE SeqsUpTo(_, _)
SeqsUpTo(S, n) ==
  IF n = 0 THEN {<<>>}
  ELSE SeqsUpTo(S, n - 1) \cup
       {Append(q, x) : q \in {r \in SeqsUpTo(S, n - 1) : Len(r) = n - 1}, x \in S}

\* the data of a page whose request succeeds
PageContents == SeqsUpTo(RawRecords, MaxPageLen)

\* why a page request fails
FetchErrors ==
  {"API returned success=false", "ConnectionError: request failed",
   "JSONDecodeError: malformed payload"}

MISSING_KEY_ERROR == "SOLSCAN_API_KEY not found in environment variables"

TIMESTAMP_ERROR == "Invalid isoformat string: ''"

\* answers of the vault service to get_sol_price
VaultResponses ==
  { [ok |-> FALSE, vaults |-> <<>>],
    [ok |-> TRUE, vaults |-> << [id |-> 1, supplyToken |-> [symbol |-> "USDC", price |-> 1]] >>],
    [ok |-> TRUE, vaults |-> << [id |-> 1, supplyToken |-> [symbol |-> "USDC", price |-> 1]],
                               [id |-> 2, supplyToken |-> [symbol |-> "WSOL", price |-> 200]],
                               [id |-> 3, supplyToken |-> [symbol |-> "WSOL", price |-> 180]] >>] }

\* the value of datetime.now() when a cache is written
Clock == { [date |-> "2025-09-10T08:00:00", microsecond |-> 123456, tzinfo |-> "None"] }

(***************************************************************************)
(* The reward dashboard, streamlit_complete_app.py.                        *)
(*                                                                         *)
(* A float is again an exact decimal [n, d].  The magnitudes of a snapshot *)
(* (totalSupply, ...) are integers, its prices decimals, as the services   *)
(* send them.                                                              *)
(***************************************************************************)
NOISE_FLOOR_USD == 100

SUPPLY_HIGH_USD == 300000

SUPPLY_MEDIUM_USD == 100000

BORROW_HIGH_USD == 100000

BORROW_MEDIUM_USD == 50000

LENDING_HIGH_USD == 300000

LENDING_MEDIUM_USD == 100000

PENDING_FALLBACK_SOL_PRICE == 150

VAULT_MAPPING ==
  ("WSOL/USDC" :> [team |-> "Fluid Team", type |-> "supply"]) @@
  ("WSOL/USDT" :> [team |-> "Fluid Team", type |-> "supply"]) @@
  ("WSOL/USDG" :> [team |-> "Fluid Team", type |-> "supply"]) @@
  ("WSOL/EURC" :> [team |-> "Fluid Team", type |-> "supply"]) @@
  ("WSOL/USDS" :> [team |-> "Fluid Team", type |-> "supply"]) @@
  ("WSOL/cbBTC" :> [team |-> "Fluid Team", type |-> "supply"]) @@
  ("WSOL/xBTC" :> [team |-> "Fluid Team", type |-> "supply"]) @@
  ("syrupUSDC/USDC" :> [team |-> "Jup + Maple", type |-> "borrow"]) @@
  ("JUPSOL/USDG" :> [team |-> "USDG Team", type |-> "borrow"]) @@
  ("xBTC/USDG" :> [team |-> "USDG Team", type |-> "borrow"]) @@
  ("JitoSOL/USDG" :> [team |-> "Jito + USDG", type |-> "borrow"]) @@
  ("syrupUSDC/USDG" :> [team |-> "Maple + USDG", type |-> "borrow"]) @@
  ("LBTC/USDG" :> [team |-> "Lombard + USDG", type |-> "borrow"]) @@
  ("INF/SOL" :> [team |-> "Sanctum", type |-> "borrow"]) @@
  ("PST/USDC" :> [team |-> "PST Team", type |-> "borrow"]) @@
  ("LBTC/USDC" :> [team |-> "Lombard + Fluid", type |-> "borrow"])

LENDING_MAPPING ==
  [USDC |-> "Jupiter", USDT |-> "Fluid Team", EURC |-> "Fluid Team",
   USDS |-> "Fluid Team", USDG |-> "Fluid Team"]

Max(a, b) == IF a >= b THEN a ELSE b

\* the numerator of x over 10^D, for D >= x.d
Scaled(x, D) == x.n * Pow10(D - x.d)

Add(x, y) ==
  [n |-> Scaled(x, Max(x.d, y.d)) + Scaled(y, Max(x.d, y.d)), d |-> Max(x.d, y.d)]

Sub(x, y) ==
  [n |-> Scaled(x, Max(x.d, y.d)) - Scaled(y, Max(x.d, y.d)), d |-> Max(x.d, y.d)]

Mul(x, y) == [n |-> x.n * y.n, d |-> x.d + y.d]

\* x / (10 ** k)
DivPow10(x, k) == [n |-> x.n, d |-> x.d + k]

Abs(x) == [n |-> IF x.n < 0 THEN 0 - x.n ELSE x.n, d |-> x.d]

\* x > y
Gt(x, y) == Scaled(x, Max(x.d, y.d)) > Scaled(y, Max(x.d, y.d))

\* x > m, for an integer m
Greater(x, m) == x.n > m * Pow10(x.d)

\* str.title() of the incentive types
title(word) ==
  CASE word = "supply" -> "Supply"
    [] word = "borrow" -> "Borrow"
    [] word = "unknown" -> "Unknown"
    [] OTHER -> word

\* (float(total) - float(liquidity)) / (10 ** decimals)
delta_amount(total, liquidity, decimals) ==
  DivPow10(Sub(Whole(total), Whole(liquidity)), decimals)

vault_pair(vault) == vault.supplyToken.symbol \o "/" \o vault.borrowToken.symbol

supply_delta_amount_zero_without_decimals(vault) ==
  IF vault.supplyToken.decimals = 0 THEN Whole(0)
  ELSE delta_amount(vault.totalSupply, vault.totalSupplyLiquidity,
                    vault.supplyToken.decimals)

supply_delta_amount(vault) ==
  delta_amount(vault.totalSupply, vault.totalSupplyLiquidity, vault.supplyToken.decimals)

supply_delta_usd(vault) == Mul(supply_delta_amount(vault), vault.supplyToken.price)

borrow_delta_amount(vault) ==
  delta_amount(vault.totalBorrow, vault.totalBorrowLiquidity, vault.borrowToken.decimals)

borrow_delta_usd(vault) == Mul(borrow_delta_amount(vault), vault.borrowToken.price)

vault_info_without_default(vault) ==
  Get(VAULT_MAPPING, vault_pair(vault), [team |-> "Fluid Team", type |-> "supply"])

vault_info(vault) ==
  Get(VAULT_MAPPING, vault_pair(vault), [team |-> "Unknown", type |-> "unknown"])

vault_row(vault) ==
  ("Vault ID" :> vault.id) @@
  ("Vault Pair" :> vault_pair(vault)) @@
  ("Supply Token" :> vault.supplyToken.symbol) @@
  ("Borrow Token" :> vault.borrowToken.symbol) @@
  ("Supply Delta Amount" :> supply_delta_amount(vault)) @@
  ("Supply Delta USD" :> supply_delta_usd(vault)) @@
  ("Borrow Delta Amount" :> borrow_delta_amount(vault)) @@
  ("Borrow Delta USD" :> borrow_delta_usd(vault)) @@
  ("Responsible Party" :> vault_info(vault).team) @@
  ("Incentive Type" :> title(vault_info(vault).type)) @@
  ("Supply Token Price" :> vault.supplyToken.price) @@
  ("Borrow Token Price" :> vault.borrowToken.price)

vault_above_floor_inclusive(vault) ==
  \/ Greater(Abs(supply_delta_usd(vault)), NOISE_FLOOR_USD - 1)
  \/ Greater(Abs(borrow_delta_usd(vault)), NOISE_FLOOR_USD - 1)

\* if abs(supply_delta_usd) > 100 or abs(borrow_delta_usd) > 100  (line 115)
vault_above_floor(vault) ==
  \/ Greater(Abs(supply_delta_usd(vault)), NOISE_FLOOR_USD)
  \/ Greater(Abs(borrow_delta_usd(vault)), NOISE_FLOOR_USD)

\* process_vault_data (lines 95-131): the rows of the DataFrame it returns
RECURSIVE process_vault_data(_)
process_vault_data(vaults) ==
  IF vaults = <<>> THEN <<>>
  ELSE (IF vault_above_floor(Head(vaults)) THEN <<vault_row(Head(vaults))>> ELSE <<>>)
       \o process_vault_data(Tail(vaults))

rewards_amount(token) ==
  delta_amount(token.totalAssets, token.liquiditySupplyData.supply, token.asset.decimals)

rewards_usd(token) == Mul(rewards_amount(token), token.asset.price)

lending_row(token) ==
  ("Lending ID" :> token.id) @@
  ("Token" :> token.asset.symbol) @@
  ("Token Name" :> token.asset.name) @@
  ("Rewards Amount" :> rewards_amount(token)) @@
  ("Rewards USD" :> rewards_usd(token)) @@
  ("Responsible Party" :> Get(LENDING_MAPPING, token.asset.symbol, "Unknown")) @@
  ("Token Price" :> token.asset.price) @@
  ("Total Assets" :> DivPow10(Whole(token.totalAssets), token.asset.decimals)) @@
  ("Liquidity Supply" :>
     DivPow10(Whole(token.liquiditySupplyData.supply), token.asset.decimals))

\* if abs(rewards_usd) > 100  (line 146)
lending_above_floor(token) == Greater(Abs(rewards_usd(token)), NOISE_FLOOR_USD)

\* process_lending_data (lines 133-159): the rows of the DataFrame it returns
RECURSIVE process_lending_data(_)
process_lending_data(tokens) ==
  IF tokens = <<>> THEN <<>>
  ELSE (IF lending_above_floor(Head(tokens)) THEN <<lending_row(Head(tokens))>> ELSE <<>>)
       \o process_lending_data(Tail(tokens))

(***************************************************************************)
(* What a run of the script shows: the pending rewards summary, the        *)
(* rebalance alerts and the priority list.                                 *)
(***************************************************************************)
\* DataFrame.sort_values(key, ascending=False) of a short frame: rows of
\* equal key keep their order
RECURSIVE insert_descending(_, _, _)
insert_descending(row, sorted, key) ==
  IF sorted = <<>> THEN <<row>>
  ELSE IF Gt(row[key], Head(sorted)[key]) THEN <<row>> \o sorted
       ELSE <<Head(sorted)>> \o insert_descending(row, Tail(sorted), key)

RECURSIVE sort_values_descending(_, _)
sort_values_descending(rows, key) ==
  IF rows = <<>> THEN <<>>
  ELSE insert_descending(rows[Len(rows)],
                         sort_values_descending(SubSeq(rows, 1, Len(rows) - 1), key), key)

\* the keys of pending_rewards, in the order of the dict (lines 427-434)
PENDING_TOKENS == <<"USDC", "USDG", "SOL", "EURC", "USDS", "USDT">>

pending_rewards_zero ==
  [t \in {PENDING_TOKENS[i] : i \in DOMAIN PENDING_TOKENS} |-> Whole(0)]

\* lines 445-452: the supply side of a WSOL vault
pending_after_supply(pending, vault) ==
  IF /\ vault.supplyToken.symbol = "WSOL"
     /\ supply_delta_amount(vault).n > 0
  THEN [pending EXCEPT !["SOL"] = Add(@, supply_delta_amount(vault))]
  ELSE pending

pending_after_borrow_netting(pending, vault) ==
  IF vault.borrowToken.symbol \in {"USDC", "USDG", "EURC", "SOL"}
  THEN [pending EXCEPT ![vault.borrowToken.symbol] = Add(@, borrow_delta_amount(vault))]
  ELSE pending

\* lines 454-468: the borrow side
pending_after_borrow(pending, vault) ==
  IF /\ borrow_delta_amount(vault).n > 0
     /\ vault.borrowToken.symbol \in {"USDC", "USDG", "EURC", "SOL"}
  THEN [pending EXCEPT ![vault.borrowToken.symbol] = Add(@, borrow_delta_amount(vault))]
  ELSE pending

\* lines 470-491: a lending token
pending_after_lending(pending, token) ==
  IF /\ rewards_amount(token).n > 0
     /\ token.asset.symbol \in {"USDC", "USDG", "USDT", "EURC", "USDS"}
  THEN [pending EXCEPT ![token.asset.symbol] = Add(@, rewards_amount(token))]
  ELSE pending

RECURSIVE pending_of_vaults(_, _)
pending_of_vaults(pending, vaults) ==
  IF vaults = <<>> THEN pending
  ELSE pending_of_vaults(
         pending_after_borrow(pending_after_supply(pending, Head(vaults)), Head(vaults)),
         Tail(vaults))

RECURSIVE pending_of_lending(_, _)
pending_of_lending(pending, tokens) ==
  IF tokens = <<>> THEN pending
  ELSE pending_of_lending(pending_after_lending(pending, Head(tokens)), Tail(tokens))

\* lines 427-491
pending_rewards(vaults, lending_tokens) ==
  pending_of_lending(pending_of_vaults(pending_rewards_zero, vaults), lending_tokens)

\* lines 495-500
RECURSIVE pending_sol_price(_)
pending_sol_price(vaults) ==
  IF vaults = <<>> THEN Whole(PENDING_FALLBACK_SOL_PRICE)
  ELSE IF Head(vaults).supplyToken.symbol = "WSOL" THEN Head(vaults).supplyToken.price
       ELSE pending_sol_price(Tail(vaults))

\* lines 504-509
pending_usd_value(token, amount_required, sol_price) ==
  IF token = "SOL" THEN Mul(amount_required, sol_price)
  ELSE Mul(amount_required, Whole(1))

\* lines 502-515
RECURSIVE summary_data(_, _, _)
summary_data(tokens, pending, sol_price) ==
  IF tokens = <<>> THEN <<>>
  ELSE (IF pending[Head(tokens)].n > 0
        THEN << ("Token" :> Head(tokens)) @@
                ("Amount Required" :> pending[Head(tokens)]) @@
                ("USD Value" :> pending_usd_value(Head(tokens), pending[Head(tokens)],
                                                  sol_price)) >>
        ELSE <<>>)
       \o summary_data(Tail(tokens), pending, sol_price)

NoSummary ==
  [status |-> "none", pending_rewards |-> pending_rewards_zero, summary_df |-> <<>>]

\* vault['supplyToken'], vault['borrowToken'] or token['asset'] raises KeyError
\* (lines 438-443, 472-473), which the except of line 558 catches
pending_raises(vaults, lending_tokens) ==
  \/ \E i \in DOMAIN vaults :
       ~ ({"supplyToken", "borrowToken"} \subseteq DOMAIN vaults[i])
  \/ \E i \in DOMAIN lending_tokens : "asset" \notin DOMAIN lending_tokens[i]

\* the Pending Rewards Summary (lines 419-559); answered = FALSE stands for
\* any exception of the two requests, which the except clause reports
pending_summary(answered, vaults, lending_tokens) ==
  IF ~ answered \/ pending_raises(vaults, lending_tokens)
  THEN [status |-> "error", pending_rewards |-> pending_rewards_zero, summary_df |-> <<>>]
  ELSE LET rows == summary_data(PENDING_TOKENS, pending_rewards(vaults, lending_tokens),
                                pending_sol_price(vaults))
       IN  [status |-> IF rows = <<>> THEN "nothing pending" ELSE "shown",
            pending_rewards |-> pending_rewards(vaults, lending_tokens),
            summary_df |-> sort_values_descending(rows, "USD Value")]

\* the Rebalance Alerts (lines 566-568)
high_vault(row) == Greater(row["Supply Delta USD"], SUPPLY_HIGH_USD)

high_borrow(row) == Greater(Abs(row["Borrow Delta USD"]), BORROW_HIGH_USD)

high_lending_row(row) == Greater(row["Rewards USD"], LENDING_HIGH_USD)

alerts(vault_df, lending_df) ==
  [high_vaults |-> SelectSeq(vault_df, high_vault),
   high_borrows |-> SelectSeq(vault_df, high_borrow),
   high_lending |-> SelectSeq(lending_df, high_lending_row)]

priority_row(type, item, amount_usd, party, priority) ==
  ("Type" :> type) @@ ("Item" :> item) @@ ("Amount USD" :> amount_usd) @@
  ("Team" :> party) @@ ("Priority" :> priority)

\* lines 999-1006
supply_priority(row) ==
  IF Greater(row["Supply Delta USD"], SUPPLY_MEDIUM_USD)
  THEN << priority_row("Vault Supply", row["Vault Pair"], row["Supply Delta USD"],
                       row["Responsible Party"],
                       IF Greater(row["Supply Delta USD"], SUPPLY_HIGH_USD)
                       THEN "High" ELSE "Medium") >>
  ELSE <<>>

borrow_priority_inclusive(row) ==
  IF Greater(Abs(row["Borrow Delta USD"]), BORROW_MEDIUM_USD - 1)
  THEN << priority_row("Vault Borrow", row["Vault Pair"], Abs(row["Borrow Delta USD"]),
                       row["Responsible Party"],
                       IF Greater(Abs(row["Borrow Delta USD"]), BORROW_HIGH_USD - 1)
                       THEN "High" ELSE "Medium") >>
  ELSE <<>>

\* lines 1007-1014
borrow_priority(row) ==
  IF Greater(Abs(row["Borrow Delta USD"]), BORROW_MEDIUM_USD)
  THEN << priority_row("Vault Borrow", row["Vault Pair"], Abs(row["Borrow Delta USD"]),
                       row["Responsible Party"],
                       IF Greater(Abs(row["Borrow Delta USD"]), BORROW_HIGH_USD)
                       THEN "High" ELSE "Medium") >>
  ELSE <<>>

\* lines 1017-1024
lending_priority(row) ==
  IF Greater(row["Rewards USD"], LENDING_MEDIUM_USD)
  THEN << priority_row("Lending", row["Token"], row["Rewards USD"],
                       row["Responsible Party"],
                       IF Greater(row["Rewards USD"], LENDING_HIGH_USD)
                       THEN "High" ELSE "Medium") >>
  ELSE <<>>

RECURSIVE vault_priorities(_)
vault_priorities(vault_df) ==
  IF vault_df = <<>> THEN <<>>
  ELSE supply_priority(Head(vault_df)) \o borrow_priority(Head(vault_df))
       \o vault_priorities(Tail(vault_df))

RECURSIVE lending_priorities(_)
lending_priorities(lending_df) ==
  IF lending_df = <<>> THEN <<>>
  ELSE lending_priority(Head(lending_df)) \o lending_priorities(Tail(lending_df))

\* lines 996-1027: priority_df
priority_df(vault_df, lending_df) ==
  sort_values_descending(vault_priorities(vault_df) \o lending_priorities(lending_df),
                         "Amount USD")

(***************************************************************************)
(* Totals: the Quick Stats of the sidebar, the summary cards of the        *)
(* Overview, and the totals per responsible party of the Overview and of   *)
(* the Analytics tab.                                                      *)
(***************************************************************************)
\* Series.sum()
RECURSIVE column_sum(_, _)
column_sum(rows, key) ==
  IF rows = <<>> THEN Whole(0)
  ELSE Add(column_sum(SubSeq(rows, 1, Len(rows) - 1), key), rows[Len(rows)][key])

\* abs(x).sum()
RECURSIVE column_abs_sum(_, _)
column_abs_sum(rows, key) ==
  IF rows = <<>> THEN Whole(0)
  ELSE Add(column_abs_sum(SubSeq(rows, 1, Len(rows) - 1), key), Abs(rows[Len(rows)][key]))

\* lines 200-208: the four metrics of the sidebar
quick_stats(vault_df, lending_df) ==
  LET total_vault_supply == column_sum(vault_df, "Supply Delta USD")
      total_vault_borrow == column_sum(vault_df, "Borrow Delta USD")
      total_lending == column_sum(lending_df, "Rewards USD")
      total_all == Add(Add(total_vault_supply, Abs(total_vault_borrow)), total_lending)
  IN  ("Total Outstanding" :> total_all) @@
      ("Vault Supply" :> total_vault_supply) @@
      ("Vault Borrow" :> Abs(total_vault_borrow)) @@
      ("Lending" :> total_lending)

\* lines 228-231: the totals of the summary cards
summary_cards(vault_df, lending_df) ==
  LET total_vault_supply == column_sum(vault_df, "Supply Delta USD")
      total_vault_borrow == Abs(column_sum(vault_df, "Borrow Delta USD"))
      total_lending == column_sum(lending_df, "Rewards USD")
      total_all == Add(Add(total_vault_supply, total_vault_borrow), total_lending)
  IN  ("Total Outstanding" :> total_all) @@
      ("Vault Supply" :> total_vault_supply) @@
      ("Vault Borrow" :> total_vault_borrow) @@
      ("Lending" :> total_lending)

\* every responsible party the two mappings can give a row, in the order of
\* a sorted index
SORTED_PARTIES ==
  << "Fluid Team", "Jito + USDG", "Jup + Maple", "Jupiter", "Lombard + Fluid",
     "Lombard + USDG", "Maple + USDG", "PST Team", "Sanctum", "USDG Team", "Unknown" >>

\* the rows of one group of groupby('Responsible Party')
group(rows, party) == SelectSeq(rows, LAMBDA row : row["Responsible Party"] = party)

\* the keys of groupby('Responsible Party'), which sorts them
group_keys(rows) ==
  SelectSeq(SORTED_PARTIES,
            LAMBDA party : \E i \in DOMAIN rows : rows[i]["Responsible Party"] = party)

in_index(index, key) == \E i \in DOMAIN index : index[i] = key

\* a value of a Series aligned to a larger index: NaN where the Series has
\* no such key, which fillna(0) makes 0
fillna_zero(index, key, value) == IF in_index(index, key) THEN value ELSE Whole(0)

team_total_of_two(vault_supply, vault_borrow, lending) == Add(vault_supply, lending)

\* DataFrame.sum(axis=1) over the three columns
team_total(vault_supply, vault_borrow, lending) ==
  Add(Add(vault_supply, vault_borrow), lending)

team_row(party, vault_supply, vault_borrow, lending) ==
  ("Responsible Party" :> party) @@
  ("Vault Supply" :> vault_supply) @@
  ("Vault Borrow" :> vault_borrow) @@
  ("Lending" :> lending) @@
  ("Total" :> team_total(vault_supply, vault_borrow, lending))

\* lines 609-620: three Series by party, put side by side on the sorted union
\* of their indexes, then sorted by Total
team_summary(vault_df, lending_df) ==
  LET vault_keys == group_keys(vault_df)
      lending_keys == group_keys(lending_df)
      index == SelectSeq(SORTED_PARTIES,
                 LAMBDA party : in_index(vault_keys, party) \/ in_index(lending_keys, party))
      row(party) ==
        team_row(party,
          fillna_zero(vault_keys, party,
                      column_sum(group(vault_df, party), "Supply Delta USD")),
          fillna_zero(vault_keys, party,
                      column_abs_sum(group(vault_df, party), "Borrow Delta USD")),
          fillna_zero(lending_keys, party,
                      column_sum(group(lending_df, party), "Rewards USD")))
      RECURSIVE rows(_)
      rows(parties) ==
        IF parties = <<>> THEN <<>> ELSE <<row(Head(parties))>> \o rows(Tail(parties))
  IN  sort_values_descending(rows(index), "Total")

\* lines 1038-1048: the aggregate of the vault groups and the Series of the
\* lending groups, concatenated side by side (the parties of the vault frame
\* first, then those only the lending frame has), then sorted by Total
team_workload(vault_df, lending_df) ==
  LET vault_keys == group_keys(vault_df)
      lending_keys == group_keys(lending_df)
      index == vault_keys \o
               SelectSeq(lending_keys, LAMBDA party : ~ in_index(vault_keys, party))
      agg(party) == [supply |-> column_sum(group(vault_df, party), "Supply Delta USD"),
                     borrow |-> column_abs_sum(group(vault_df, party), "Borrow Delta USD")]
      row(party) ==
        team_row(party,
          fillna_zero(vault_keys, party, agg(party).supply),
          fillna_zero(vault_keys, party, agg(party).borrow),
          fillna_zero(lending_keys, party,
                      column_sum(group(lending_df, party), "Rewards USD")))
      RECURSIVE rows(_)
      rows(parties) ==
        IF parties = <<>> THEN <<>> ELSE <<row(Head(parties))>> \o rows(Tail(parties))
  IN  sort_values_descending(rows(index), "Total")

(***************************************************************************)
(* State.                                                                  *)
(*   api_key           SOLSCAN_API_KEY is set (read once, at import)       *)
(*   cache_file        the file CACHE_FILE                                 *)
(*   pc                "idle", or "loop": inside the page loop of          *)
(*                     fetch_all_transactions                              *)
(*   max_pages, page, all_transactions   the arguments and locals of the   *)
(*                     call (page and all_transactions are 1 and <<>>      *)
(*                     between calls)                                      *)
(*   result            what the last fetch_all_transactions returned       *)
(*   clear_returned    what clear_cache returned, when it ran last         *)
(* History of the run, read by the properties only:                        *)
(*   last_op           the operation that returned last                    *)
(*   netlog            the network requests of that operation, in order    *)
(*   pages             the answers to its page requests, in order          *)
(*   cache_before      the cache file when the last operation began        *)
(*   served            "cache" or "network": how that call was served      *)
(*   saved             the list given to the save_to_cache that wrote the  *)
(*                     cache file                                          *)
(*   pinned            the records of the last successful non-empty        *)
(*                     network fetch, <<>> after a clear_cache that        *)
(*                     returned true; pinned_before: at the call's start   *)
(*   cleared           clear_cache returned true and nothing was saved     *)
(*                     since; cleared_before: at the call's start          *)
(***************************************************************************)
VARIABLES api_key, cache_file, pc, max_pages, page, all_transactions, result,
          clear_returned, last_op, netlog, pages, cache_before, served, saved,
          pinned, pinned_before, cleared, cleared_before

fetcher_vars == <<api_key, cache_file, pc, max_pages, page, all_transactions, result,
                  clear_returned, last_op, netlog, pages, cache_before, served, saved,
                  pinned, pinned_before, cleared, cleared_before>>

(***************************************************************************)
(* One call of process_transactions on its own:                            *)
(*   batch_pc       "called" before the call runs, "returned" after it,    *)
(*                  "idle" when there is no such call                      *)
(*   batch          its argument raw_data                                  *)
(*   batch_response the answer of the vault service to its get_sol_price   *)
(*   batch_price    the price its get_sol_price returned                   *)
(*   batch_result   [raised, processed]: whether it raised, and the list   *)
(*                  it returned                                            *)
(***************************************************************************)
VARIABLES batch_pc, batch, batch_response, batch_price, batch_result

batch_vars == <<batch_pc, batch, batch_response, batch_price, batch_result>>

(***************************************************************************)
(* The dashboard:                                                          *)
(*   vaults_api, lendings_api   the snapshot lists the two services answer *)
(*                  with, when they answer                                 *)
(*   vault_data, lending_data, last_update, transactions                   *)
(*                  st.session_state                                       *)
(*   view           what the last run of the script showed                 *)
(*   fresh_click    how the fetch of the last click on Fetch Fresh Data    *)
(*                  went: "fetched" when both services returned snapshots, *)
(*                  "failed" when one of them returned nothing, "none"     *)
(*                  before the first click                                 *)
(*   transactions_click   the same for Fetch Transactions: "fetched" when  *)
(*                  fetch_all_transactions returned success, "failed" when *)
(*                  it did not                                             *)
(***************************************************************************)
VARIABLES vaults_api, lendings_api, vault_data, lending_data, last_update,
          transactions, view, fresh_click, transactions_click

dash_vars == <<vaults_api, lendings_api, vault_data, lending_data, last_update,
               transactions, view, fresh_click, transactions_click>>

\* the state outside the transaction fetcher
app_vars == <<batch_vars, dash_vars>>

vars == <<fetcher_vars, app_vars>>

NoResult == [transactions |-> <<>>, success |-> FALSE, error |-> "None"]

Success(records) == [transactions |-> records, success |-> TRUE, error |-> "None"]

Failure_with_partial(msg) ==
  [transactions |-> all_transactions, success |-> FALSE, error |-> msg]

Failure_without_message(msg) ==
  [transactions |-> <<>>, success |-> FALSE, error |-> "None"]

Failure(msg) == [transactions |-> <<>>, success |-> FALSE, error |-> msg]

TransferRequest(n) == [url |-> "SOLSCAN_API_URL", page |-> n]

VaultRequest(n) == [url |-> "VAULT_API", page |-> n]

\* cache files an earlier run of the program may have left
EarlierRecords ==
  process_transactions(<<TxExact>>, PageMetadata, FALLBACK_SOL_PRICE).processed

EarlierCaches ==
  { NoFile,
    save_to_cache(EarlierRecords,
                  [date |-> "2025-09-05T17:45:00", microsecond |-> 0,
                   tzinfo |-> "None"]).file }

FetcherInit ==
  /\ api_key \in BOOLEAN
  /\ cache_file \in EarlierCaches
  /\ pc = "idle"
  /\ max_pages = 1
  /\ page = 1
  /\ all_transactions = <<>>
  /\ result = NoResult
  /\ clear_returned = FALSE
  /\ last_op = "none"
  /\ netlog = <<>>
  /\ pages = <<>>
  /\ cache_before = cache_file
  /\ served = "none"
  /\ saved = IF cache_file.exists THEN EarlierRecords ELSE <<>>
  /\ pinned = <<>>
  /\ pinned_before = <<>>
  /\ cleared = FALSE
  /\ cleared_before = FALSE

\* no call of process_transactions on its own
BatchIdle ==
  /\ batch_pc = "idle"
  /\ batch = <<>>
  /\ batch_response = [ok |-> FALSE, vaults |-> <<>>]
  /\ batch_price = FALLBACK_SOL_PRICE
  /\ batch_result = [raised |-> FALSE, processed |-> <<>>]

None == [none |-> TRUE]

DataFrame(rows) == [none |-> FALSE, rows |-> rows]

NoAlerts == [high_vaults |-> <<>>, high_borrows |-> <<>>, high_lending |-> <<>>]

\* the script has not run
NoTotals ==
  ("Total Outstanding" :> Whole(0)) @@ ("Vault Supply" :> Whole(0)) @@
  ("Vault Borrow" :> Whole(0)) @@ ("Lending" :> Whole(0))

NotRun == [status |-> "not run", summary |-> NoSummary, alerts |-> NoAlerts,
           priority_df |-> <<>>, quick_stats |-> NoTotals, summary_cards |-> NoTotals,
           team_summary |-> <<>>, team_workload |-> <<>>]

\* st.session_state has no key 'transactions'
NotInSession == [in_session |-> FALSE]

\* st.session_state.transactions = value
InSession(value) == [in_session |-> TRUE, value |-> value]

\* the session state of a new session (lines 162-167)
SessionInit ==
  /\ vault_data = None
  /\ lending_data = None
  /\ last_update = None
  /\ transactions = NotInSession
  /\ view = NotRun
  /\ fresh_click = "none"
  /\ transactions_click = "none"

\* no dashboard session
DashIdle ==
  /\ vaults_api = <<>>
  /\ lendings_api = <<>>
  /\ SessionInit

Init ==
  /\ FetcherInit
  /\ BatchIdle
  /\ DashIdle

cached_never(loaded) == FALSE

\* if cached: a non-empty list was loaded
cached_truthy(loaded) == loaded.found /\ loaded.transactions # <<>>

\* fetch_all_transactions, lines 198-204: the cache holds records
CallFromCache ==
  /\ pc = "idle"
  /\ cached_truthy(load_from_cache(cache_file))
  /\ result' = Success(load_from_cache(cache_file).transactions)
  /\ last_op' = "fetch"
  /\ netlog' = <<>>
  /\ pages' = <<>>
  /\ cache_before' = cache_file
  /\ served' = "cache"
  /\ pinned_before' = pinned
  /\ cleared_before' = cleared
  /\ clear_returned' = FALSE
  /\ UNCHANGED <<app_vars, api_key, cache_file, pc, max_pages, page, all_transactions,
                 saved, pinned, cleared>>

\* fetch_all_transactions, lines 198-212: nothing usable in the cache
CallStart(mp) ==
  /\ pc = "idle"
  /\ ~ cached_truthy(load_from_cache(cache_file))
  /\ pc' = "loop"
  /\ max_pages' = mp
  /\ page' = 1
  /\ all_transactions' = <<>>
  /\ result' = NoResult
  /\ last_op' = "none"
  /\ netlog' = <<>>
  /\ pages' = <<>>
  /\ cache_before' = cache_file
  /\ served' = "network"
  /\ pinned_before' = pinned
  /\ cleared_before' = cleared
  /\ clear_returned' = FALSE
  /\ UNCHANGED <<app_vars, api_key, cache_file, saved, pinned, cleared>>

\* return [], False, error  (lines 219 and 241)
ReturnFailure(msg) ==
  /\ result' = Failure(msg)
  /\ pc' = "idle"
  /\ last_op' = "fetch"
  /\ page' = 1
  /\ all_transactions' = <<>>
  /\ UNCHANGED <<app_vars, api_key, cache_file, max_pages, clear_returned, cache_before,
                 served, saved, pinned, pinned_before, cleared, cleared_before>>

SaveAndReturn_unless_empty(records) ==
  /\ \E now \in Clock :
       /\ cache_file' = IF records = <<>> THEN cache_file
                        ELSE save_to_cache(records, now).file
       /\ result' = Success(save_to_cache(records, now).transactions)
  /\ saved' = IF records = <<>> THEN saved ELSE records
  /\ pc' = "idle"
  /\ last_op' = "fetch"
  /\ page' = 1
  /\ all_transactions' = <<>>
  /\ pinned' = IF records # <<>> THEN records ELSE pinned
  /\ cleared' = (cleared /\ records = <<>>)
  /\ UNCHANGED <<app_vars, api_key, max_pages, clear_returned, cache_before, served,
                 pinned_before, cleared_before>>

\* lines 229-235: save_to_cache(all_transactions); return all_transactions, True, None
SaveAndReturn(records) ==
  /\ \E now \in Clock :
       /\ cache_file' = save_to_cache(records, now).file
       /\ result' = Success(save_to_cache(records, now).transactions)
  /\ saved' = records
  /\ pc' = "idle"
  /\ last_op' = "fetch"
  /\ page' = 1
  /\ all_transactions' = <<>>
  /\ pinned' = IF records # <<>> THEN records ELSE pinned
  /\ cleared' = FALSE
  /\ UNCHANGED <<app_vars, api_key, max_pages, clear_returned, cache_before, served,
                 pinned_before, cleared_before>>

PageWithoutKey_after_request ==
  /\ pc = "loop"
  /\ ~ api_key
  /\ netlog' = Append(netlog, TransferRequest(page))
  /\ pages' = Append(pages, [ok |-> FALSE, raw |-> <<>>, price |-> 0])
  /\ ReturnFailure(MISSING_KEY_ERROR)

\* fetch_from_solscan without an API key (lines 103-104): no request is sent
PageWithoutKey ==
  /\ pc = "loop"
  /\ ~ api_key
  /\ UNCHANGED netlog
  /\ pages' = Append(pages, [ok |-> FALSE, raw |-> <<>>, price |-> 0])
  /\ ReturnFailure(MISSING_KEY_ERROR)

\* fetch_from_solscan fails (lines 109-115, 122-123)
PageFails(err) ==
  /\ pc = "loop"
  /\ api_key
  /\ netlog' = Append(netlog, TransferRequest(page))
  /\ pages' = Append(pages, [ok |-> FALSE, raw |-> <<>>, price |-> 0])
  /\ ReturnFailure(err)

end_of_data_never(raw_data) == FALSE

end_of_data_when_none_kept(raw_data) ==
  process_transactions(raw_data, PageMetadata, FALLBACK_SOL_PRICE).processed = <<>>

\* if not raw_data: break  (lines 221-223)
end_of_data(raw_data) == raw_data = <<>>

last_page_plus_one(p, mp) == p = mp + 1

\* range(1, max_pages + 1) has no page after p
last_page(p, mp) == p = mp

\* the page has no records (lines 221-223), then lines 229-235
PageEmpty(raw) ==
  /\ pc = "loop"
  /\ api_key
  /\ end_of_data(raw)
  /\ netlog' = Append(netlog, TransferRequest(page))
  /\ pages' = Append(pages, [ok |-> TRUE, raw |-> raw, price |-> 0])
  /\ SaveAndReturn(all_transactions)

\* the page has records (lines 225-227): they are classified, with the price
\* get_sol_price fetches for this page
PageRecords(raw, response) ==
  /\ pc = "loop"
  /\ api_key
  /\ ~ end_of_data(raw)
  /\ netlog' = netlog \o <<TransferRequest(page), VaultRequest(page)>>
  /\ pages' = Append(pages, [ok |-> TRUE, raw |-> raw, price |-> get_sol_price(response)])
  /\ LET done == process_transactions(raw, PageMetadata, get_sol_price(response))
     IN  IF done.raised
         THEN ReturnFailure(TIMESTAMP_ERROR)
         ELSE IF last_page(page, max_pages)
              THEN SaveAndReturn(all_transactions \o done.processed)
              ELSE /\ all_transactions' = all_transactions \o done.processed
                   /\ page' = page + 1
                   /\ UNCHANGED <<app_vars, api_key, cache_file, pc, max_pages, result,
                                  clear_returned, last_op, cache_before, served,
                                  saved, pinned, pinned_before, cleared,
                                  cleared_before>>

\* clear_cache (lines 244-249)
ClearCache ==
  /\ pc = "idle"
  /\ cache_file' = clear_cache(cache_file).file
  /\ clear_returned' = clear_cache(cache_file).returned
  /\ last_op' = "clear"
  /\ cache_before' = cache_file
  /\ pinned' = IF clear_cache(cache_file).returned THEN <<>> ELSE pinned
  /\ cleared' = (cleared \/ clear_cache(cache_file).returned)
  /\ saved' = IF clear_cache(cache_file).file.exists THEN saved ELSE <<>>
  /\ netlog' = <<>>
  /\ pages' = <<>>
  /\ served' = "none"
  /\ UNCHANGED <<app_vars, api_key, pc, max_pages, page, all_transactions, result,
                 pinned_before, cleared_before>>

Next ==
  \/ CallFromCache
  \/ \E mp \in 1..MaxPages : CallStart(mp)
  \/ PageWithoutKey
  \/ \E err \in FetchErrors : PageFails(err)
  \/ \E raw \in PageContents : PageEmpty(raw)
  \/ \E raw \in PageContents, response \in VaultResponses : PageRecords(raw, response)
  \/ ClearCache

Spec == Init /\ [][Next]_vars

(***************************************************************************)
(* process_transactions applied to one page of records.  The records are   *)
(* those of RawRecords and three more.                                     *)
(***************************************************************************)
MaxBatch == 3

\* a stablecoin outflow of 2000 to a tagged address; the source values it at 7
TxStableValued ==
  [trans_id |-> "sigE", flow |-> "out",
   from_address |-> TREASURY_ADDRESS,
   to_address |-> "7b1zZUuae2F56e66GqpkKe1Tq1BK2ePRRuGGr8ahe2JB",
   token_address |-> USDC_MINT, amount |-> 2000000000, token_decimals |-> 6,
   value |-> 7, block_id |-> 106,
   time |-> [date |-> "2025-09-04T12:00:00", frac |-> 0, zone |-> "Z"]]

\* an inflow of another token that the source does not value
TxNoValue ==
  [trans_id |-> "sigF", flow |-> "in",
   from_address |-> "8sjM83a4u2M8YZYshLGKzYxh1VHFfbgtaytwaoEg4bUJ",
   to_address |-> TREASURY_ADDRESS, token_address |-> JUP_MINT,
   amount |-> 900000000, token_decimals |-> 6, block_id |-> 107,
   time |-> [date |-> "2025-09-04T13:00:00", frac |-> 0, zone |-> "Z"]]

\* a transfer of a token the metadata does not list, valued by the source at
\* 1200, flagged "IN", from a tagged address to an untagged one
TxUnknownSymbol ==
  [trans_id |-> "sigG", flow |-> "IN",
   from_address |-> "8JmDPG5BFQ6gpUPJV9xBixYJLqTKCSNotkXksTmNsQfj",
   to_address |-> "9xQeWvG816bUx9EPjHmaT23yvVM2ZWbrrpZb9PusVFin",
   token_address |-> UNLISTED_MINT, amount |-> 40000000, token_decimals |-> 6,
   value |-> 1200, block_id |-> 108,
   time |-> [date |-> "2025-09-04T14:00:00", frac |-> 0, zone |-> "Z"]]

BatchRecords == RawRecords \cup {TxStableValued, TxNoValue, TxUnknownSymbol}

Batches == SeqsUpTo(BatchRecords, MaxBatch)

\* process_transactions is called with a page of records
InitClassifier ==
  /\ FetcherInit
  /\ api_key
  /\ ~ cache_file.exists
  /\ batch_pc = "called"
  /\ batch \in Batches
  /\ batch_response = [ok |-> FALSE, vaults |-> <<>>]
  /\ batch_price = FALLBACK_SOL_PRICE
  /\ batch_result = [raised |-> FALSE, processed |-> <<>>]
  /\ DashIdle

\* process_transactions(raw_data, metadata), lines 126-190
ProcessTransactions(response) ==
  /\ batch_pc = "called"
  /\ batch_pc' = "returned"
  /\ batch_response' = response
  /\ batch_price' = get_sol_price(response)
  /\ batch_result' = process_transactions(batch, PageMetadata, get_sol_price(response))
  /\ UNCHANGED <<fetcher_vars, batch, dash_vars>>

NextClassifier == \E response \in VaultResponses : ProcessTransactions(response)

SpecClassifier == InitClassifier /\ [][NextClassifier]_vars

(***************************************************************************)
(* The dashboard session.  The two services answer every request of a      *)
(* session with the same snapshot lists, or fail.  MaxSnapshots bounds the *)
(* number of snapshots of the two lists together.                          *)
(***************************************************************************)
MaxSnapshots == 3

\* 0.5 WSOL at 160 = 80 USD on the supply side, nothing on the borrow side
VaultQuiet ==
  [id |-> 1,
   supplyToken |-> [symbol |-> "WSOL", decimals |-> 1, price |-> Whole(160)],
   borrowToken |-> [symbol |-> "USDC", decimals |-> 2, price |-> Whole(1)],
   totalSupply |-> 1005, totalSupplyLiquidity |-> 1000,
   totalBorrow |-> 5000, totalBorrowLiquidity |-> 5000]

\* 0.5 WSOL at 200 = 100 USD, and -100.00 USDT
VaultAtFloor ==
  [id |-> 2,
   supplyToken |-> [symbol |-> "WSOL", decimals |-> 1, price |-> Whole(200)],
   borrowToken |-> [symbol |-> "USDT", decimals |-> 2, price |-> Whole(1)],
   totalSupply |-> 1005, totalSupplyLiquidity |-> 1000,
   totalBorrow |-> 20000, totalBorrowLiquidity |-> 30000]

\* a pair VAULT_MAPPING does not list: 150 USD of a token without decimals,
\* and 70000.0 of a token whose price is 0
VaultFooBar ==
  [id |-> 3,
   supplyToken |-> [symbol |-> "FOO", decimals |-> 0, price |-> Whole(1)],
   borrowToken |-> [symbol |-> "BAR", decimals |-> 1, price |-> Whole(0)],
   totalSupply |-> 650, totalSupplyLiquidity |-> 500,
   totalBorrow |-> 700000, totalBorrowLiquidity |-> 0]

\* 1500.0 WSOL at 200 = 300000 USD, and -100000.00 USDG
VaultAtTiers ==
  [id |-> 4,
   supplyToken |-> [symbol |-> "WSOL", decimals |-> 1, price |-> Whole(200)],
   borrowToken |-> [symbol |-> "USDG", decimals |-> 2, price |-> Whole(1)],
   totalSupply |-> 20000, totalSupplyLiquidity |-> 5000,
   totalBorrow |-> 0, totalBorrowLiquidity |-> 10000000]

\* -400000.0 USD on the supply side, and 50000 USDC
VaultNegativeSupply ==
  [id |-> 5,
   supplyToken |-> [symbol |-> "syrupUSDC", decimals |-> 1, price |-> Whole(1)],
   borrowToken |-> [symbol |-> "USDC", decimals |-> 0, price |-> Whole(1)],
   totalSupply |-> 1000000, totalSupplyLiquidity |-> 5000000,
   totalBorrow |-> 90000, totalBorrowLiquidity |-> 40000]

\* 1600.0 JUPSOL at 250 = 400000 USD, and -120000 USDG
VaultHigh ==
  [id |-> 6,
   supplyToken |-> [symbol |-> "JUPSOL", decimals |-> 1, price |-> Whole(250)],
   borrowToken |-> [symbol |-> "USDG", decimals |-> 0, price |-> Whole(1)],
   totalSupply |-> 18000, totalSupplyLiquidity |-> 2000,
   totalBorrow |-> 30000, totalBorrowLiquidity |-> 150000]

\* 100000 USD on the supply side, and 300.0 SOL at 200 = 60000 USD
VaultInfSol ==
  [id |-> 7,
   supplyToken |-> [symbol |-> "INF", decimals |-> 0, price |-> Whole(1)],
   borrowToken |-> [symbol |-> "SOL", decimals |-> 1, price |-> Whole(200)],
   totalSupply |-> 150000, totalSupplyLiquidity |-> 50000,
   totalBorrow |-> 4000, totalBorrowLiquidity |-> 1000]

VaultSnapshots ==
  {VaultQuiet, VaultAtFloor, VaultFooBar, VaultAtTiers, VaultNegativeSupply, VaultHigh,
   VaultInfSol}

LendingSnapshot(id, symbol, name, decimals, totalAssets, supply) ==
  [id |-> id,
   asset |-> [symbol |-> symbol, name |-> name, decimals |-> decimals, price |-> Whole(1)],
   totalAssets |-> totalAssets, liquiditySupplyData |-> [supply |-> supply]]

\* rewards of 300000, 400000.0, 150 (a symbol LENDING_MAPPING does not list),
\* -400000, 100.00 and 100000
LendingSnapshots ==
  { LendingSnapshot(1, "USDC", "USD Coin", 0, 800000, 500000),
    LendingSnapshot(2, "USDT", "Tether USD", 1, 9000000, 5000000),
    LendingSnapshot(3, "XYZ", "Xyz Token", 0, 250, 100),
    LendingSnapshot(4, "EURC", "Euro Coin", 0, 100000, 500000),
    LendingSnapshot(5, "USDS", "USDS", 2, 30000, 20000),
    LendingSnapshot(6, "USDG", "Global Dollar", 0, 300000, 200000) }

InitDashboard ==
  /\ FetcherInit
  /\ api_key
  /\ ~ cache_file.exists
  /\ BatchIdle
  /\ vaults_api \in SeqsUpTo(VaultSnapshots, MaxSnapshots)
  /\ lendings_api \in SeqsUpTo(LendingSnapshots, MaxSnapshots - Len(vaults_api))
  /\ SessionInit

\* fetch_vault_data, fetch_lending_data (lines 75-93): [] when the request fails
fetched(answered, snapshots) == IF answered THEN snapshots ELSE <<>>

\* the script from line 196 on, given the session state.  A session without
\* data stops at line 213; a frame without rows has no columns, so that line
\* 203 raises KeyError.
render(vault_state, lending_state, pending_answered) ==
  IF vault_state = None \/ lending_state = None
  THEN [NotRun EXCEPT !.status = "stopped"]
  ELSE IF vault_state.rows = <<>> \/ lending_state.rows = <<>>
       THEN [NotRun EXCEPT !.status = "KeyError"]
       ELSE [status |-> "shown",
             summary |-> pending_summary(pending_answered, vaults_api, lendings_api),
             alerts |-> alerts(vault_state.rows, lending_state.rows),
             priority_df |-> priority_df(vault_state.rows, lending_state.rows),
             quick_stats |-> quick_stats(vault_state.rows, lending_state.rows),
             summary_cards |-> summary_cards(vault_state.rows, lending_state.rows),
             team_summary |-> team_summary(vault_state.rows, lending_state.rows),
             team_workload |-> team_workload(vault_state.rows, lending_state.rows)]

\* the run ended in the handler of the button, with an exception
Raised == [NotRun EXCEPT !.status = "exception"]

\* vault[...] of lines 100-126 raises KeyError: the snapshot lacks a key
vault_raises(vault) ==
  ~ ({"id", "supplyToken", "borrowToken", "totalSupply", "totalSupplyLiquidity",
      "totalBorrow", "totalBorrowLiquidity"} \subseteq DOMAIN vault)

\* token[...] of lines 138-155 raises KeyError: the snapshot lacks a key
token_raises(token) ==
  ~ ({"id", "asset", "totalAssets", "liquiditySupplyData"} \subseteq DOMAIN token)

\* process_vault_data(vaults) raises
process_vault_data_raises(vaults) == \E i \in DOMAIN vaults : vault_raises(vaults[i])

\* process_lending_data(lendings) raises
process_lending_data_raises(tokens) == \E i \in DOMAIN tokens : token_raises(tokens[i])

store_fresh_if_vaults(vaults, lendings) == vaults # <<>>

\* if vaults and lendings:  (line 182)
store_fresh(vaults, lendings) == vaults # <<>> /\ lendings # <<>>

\* the Fetch Fresh Data button (lines 177-188), and the rest of that run.
\* The three assignments of lines 183-185 run one after the other: an
\* exception of process_vault_data leaves the session as it was, one of
\* process_lending_data leaves it with the new vault_data only.
FetchFreshData(vaults_answered, lendings_answered, pending_answered) ==
  LET vaults == fetched(vaults_answered, vaults_api)
      lendings == fetched(lendings_answered, lendings_api)
  IN  /\ fresh_click' = IF vaults = <<>> \/ lendings = <<>> THEN "failed" ELSE "fetched"
      /\ IF store_fresh(vaults, lendings)
         THEN IF process_vault_data_raises(vaults)
              THEN /\ UNCHANGED <<vault_data, lending_data, last_update>>
                   /\ view' = Raised
              ELSE IF process_lending_data_raises(lendings)
                   THEN /\ vault_data' = DataFrame(process_vault_data(vaults))
                        /\ UNCHANGED <<lending_data, last_update>>
                        /\ view' = Raised
                   ELSE /\ vault_data' = DataFrame(process_vault_data(vaults))
                        /\ lending_data' = DataFrame(process_lending_data(lendings))
                        /\ \E now \in Clock : last_update' = now
                        /\ view' = render(vault_data', lending_data', pending_answered)
         ELSE /\ UNCHANGED <<vault_data, lending_data, last_update>>
              /\ view' = render(vault_data, lending_data, pending_answered)
      /\ UNCHANGED <<fetcher_vars, batch_vars, vaults_api, lendings_api, transactions,
                     transactions_click>>

\* a run of the script without a click
Rerun(pending_answered) ==
  /\ view' = render(vault_data, lending_data, pending_answered)
  /\ UNCHANGED <<fetcher_vars, batch_vars, vaults_api, lendings_api, vault_data,
                 lending_data, last_update, transactions, fresh_click,
                 transactions_click>>

\* the services answer every request of the session; a session in which a
\* fetch fails is in SpecSession
NextDashboard ==
  \/ \E pa \in BOOLEAN : FetchFreshData(TRUE, TRUE, pa)
  \/ \E pa \in BOOLEAN : Rerun(pa)

SpecDashboard == InitDashboard /\ [][NextDashboard]_vars

(***************************************************************************)
(* One session of the dashboard over several clicks, while the answers of  *)
(* the services change: a fetch may fail, and a snapshot may lack a key    *)
(* the processing reads.                                                   *)
(***************************************************************************)
\* a vault snapshot without borrowToken
VaultBroken ==
  [id |-> 8,
   supplyToken |-> [symbol |-> "WSOL", decimals |-> 1, price |-> Whole(200)],
   totalSupply |-> 2000, totalSupplyLiquidity |-> 1000,
   totalBorrow |-> 5000, totalBorrowLiquidity |-> 5000]

\* a lending snapshot without asset
TokenBroken == [id |-> 7, totalAssets |-> 900000, liquiditySupplyData |-> [supply |-> 100]]

\* what the two services answer with at one time
Payloads ==
  { [vaults |-> <<VaultHigh>>,
     lendings |-> <<LendingSnapshot(1, "USDC", "USD Coin", 0, 800000, 500000)>>],
    [vaults |-> <<VaultAtTiers, VaultNegativeSupply>>,
     lendings |-> <<LendingSnapshot(2, "USDT", "Tether USD", 1, 9000000, 5000000)>>],
    [vaults |-> <<VaultInfSol>>,
     lendings |-> <<LendingSnapshot(6, "USDG", "Global Dollar", 0, 300000, 200000),
                    TokenBroken>>],
    [vaults |-> <<VaultQuiet, VaultBroken>>,
     lendings |-> <<LendingSnapshot(4, "EURC", "Euro Coin", 0, 100000, 500000)>>] }

\* what fetch_all_transactions returns to the handler of Fetch Transactions
FetchOutcomes ==
  { Success(EarlierRecords), Success(<<>>), Failure(MISSING_KEY_ERROR),
    Failure(TIMESTAMP_ERROR) }

InitSession ==
  /\ FetcherInit
  /\ api_key
  /\ ~ cache_file.exists
  /\ BatchIdle
  /\ \E payload \in Payloads :
       /\ vaults_api = payload.vaults
       /\ lendings_api = payload.lendings
  /\ SessionInit

\* the services have other snapshots to answer with
SnapshotsChange(payload) ==
  /\ vaults_api' = payload.vaults
  /\ lendings_api' = payload.lendings
  /\ <<vaults_api', lendings_api'>> # <<vaults_api, lendings_api>>
  /\ UNCHANGED <<fetcher_vars, batch_vars, vault_data, lending_data, last_update,
                 transactions, view, fresh_click, transactions_click>>

\* the Fetch Transactions button (lines 795-808), and the rest of that run.
\* The button is on the fourth tab, which a run reaches only when it shows
\* the data (lines 203 and 211-213); outcome is what fetch_all_transactions
\* returned.
FetchTransactions(outcome, pending_answered) ==
  /\ render(vault_data, lending_data, pending_answered).status = "shown"
  /\ transactions_click' = IF outcome.success THEN "fetched" ELSE "failed"
  /\ transactions' = IF outcome.success THEN InSession(outcome.transactions)
                     ELSE transactions
  /\ view' = render(vault_data, lending_data, pending_answered)
  /\ UNCHANGED <<fetcher_vars, batch_vars, vaults_api, lendings_api, vault_data,
                 lending_data, last_update, fresh_click>>

NextSession ==
  \/ \E va, la, pa \in BOOLEAN : FetchFreshData(va, la, pa)
  \/ \E pa \in BOOLEAN : Rerun(pa)
  \/ \E outcome \in FetchOutcomes, pa \in BOOLEAN : FetchTransactions(outcome, pa)
  \/ \E payload \in Payloads : SnapshotsChange(payload)

SpecSession == InitSession /\ [][NextSession]_vars

(***************************************************************************)
(* Vocabulary of the properties.                                           *)
(***************************************************************************)
\* a fetch_all_transactions call has returned and nothing ran since
Returned == pc = "idle" /\ last_op = "fetch"

\* the page numbers of the transfer-page requests sent, in order
PagesRequested ==
  LET sent == SelectSeq(netlog, LAMBDA r : r.url = "SOLSCAN_API_URL")
  IN  [i \in 1..Len(sent) |-> sent[i].page]

UpTo(n) == [i \in 1..n |-> i]

\* the records process_transactions makes of the answered pages, in page order
RECURSIVE ClassifiedOf(_)
ClassifiedOf(ps) ==
  IF ps = <<>> THEN <<>>
  ELSE ClassifiedOf(SubSeq(ps, 1, Len(ps) - 1)) \o
       process_transactions(ps[Len(ps)].raw, PageMetadata, ps[Len(ps)].price).processed

\* the USD value the code computes for record j of answered page p
ValueOn(p, j) == value_usd(p.raw[j], PageMetadata.tokens, p.price)

\* the classification of answered page p raised: one of its records passed
\* the minimum-value filter and its timestamp did not parse
RaisedOn(p) ==
  \E j \in DOMAIN p.raw :
    /\ ~ below_minimum(ValueOn(p, j))
    /\ parse_fails(p.raw[j])

\* how many records of the answered pages are worth the minimum or more
RECURSIVE KeptCount(_)
KeptCount(ps) ==
  IF ps = <<>> THEN 0
  ELSE KeptCount(Tail(ps)) +
       Cardinality({j \in DOMAIN Head(ps).raw : AtLeast(ValueOn(Head(ps), j), MIN_VALUE_USD)})

Range(q) == {q[i] : i \in DOMAIN q}

CachedRecords == IF cache_file.exists THEN Range(cache_file.transactions) ELSE {}

(***************************************************************************)
(* C1.  A call that finds a cache file written by save_to_cache sends no   *)
(* request at all and returns the cached records with success, also when   *)
(* the file holds the empty list written after an empty first page.        *)
(* The code tests the loaded list for truth (line 201), so an empty cached *)
(* list is fetched again.                                                  *)
(***************************************************************************)
C1_CacheFirstAlways ==
  (cache_before.exists /\ (pc = "loop" \/ last_op = "fetch")) =>
     /\ netlog = <<>>
     /\ Returned =>
          /\ result.success
          /\ result.transactions = load_from_cache(cache_before).transactions

(***************************************************************************)
(* C2.  A failed page request ends the call at once: it is the last page   *)
(* asked for, the call returns ([], false, message) without the records of *)
(* the earlier pages, and the cache file is as it was before the call.     *)
(***************************************************************************)
C2_PageFailureAborts ==
  /\ \A i \in DOMAIN pages : ~ pages[i].ok => (i = Len(pages) /\ pc = "idle")
  /\ (Returned /\ pages # <<>> /\ ~ pages[Len(pages)].ok) =>
        /\ result.transactions = <<>>
        /\ ~ result.success
        /\ result.error # "None"
        /\ cache_file = cache_before
        /\ \A i \in DOMAIN netlog : netlog[i].page <= Len(pages)

C2_Witness ==
  /\ Returned
  /\ api_key
  /\ Len(pages) = 2
  /\ ~ pages[2].ok
  /\ ClassifiedOf(SubSeq(pages, 1, 1)) # <<>>

C4_SuccessIsCached ==
  (Returned /\ served = "network" /\ result.success) =>
     /\ cache_file.exists
     /\ load_from_cache(cache_file).found
     /\ load_from_cache(cache_file).transactions = result.transactions

C4_Witness ==
  /\ Returned
  /\ served = "network"
  /\ netlog # <<>>
  /\ Len(pages) = 1
  /\ result.success
  /\ result.transactions = <<>>
  /\ ~ cache_before.exists
  /\ cache_file.exists

(***************************************************************************)
(* C5.  A call requests the pages 1, 2, ... in order and never more than   *)
(* max_pages of them; when every one of the max_pages pages brings at      *)
(* least one record the call returns success with the classified records   *)
(* of all of them.                                                         *)
(* As stated this fails when a record kept by the value filter has an      *)
(* unparseable timestamp: the classifier raises and the call fails.        *)
(***************************************************************************)
PagesInOrderWithinCap ==
  /\ PagesRequested = UpTo(Len(PagesRequested))
  /\ (pc = "loop" \/ Returned) => Len(PagesRequested) <= max_pages

AllPagesBroughtRecords ==
  /\ Returned
  /\ served = "network"
  /\ Len(pages) = max_pages
  /\ \A i \in DOMAIN pages : pages[i].ok /\ pages[i].raw # <<>>

C5_PageCapIsSuccess ==
  /\ PagesInOrderWithinCap
  /\ AllPagesBroughtRecords =>
        /\ result.success
        /\ result.transactions = ClassifiedOf(pages)

\* C5, amended: ... when every one of the max_pages pages brings at least
\* one record and the classifier raises on none of them, the call returns
\* success with the classified records of all max_pages pages.
C5_PageCapIsSuccessUnlessRaised ==
  /\ PagesInOrderWithinCap
  /\ ( /\ AllPagesBroughtRecords
       /\ \A i \in DOMAIN pages : ~ RaisedOn(pages[i]) ) =>
        /\ result.success
        /\ result.error = "None"
        /\ result.transactions = ClassifiedOf(pages)

C5_Witness ==
  /\ AllPagesBroughtRecords
  /\ max_pages = MaxPages
  /\ result.success
  /\ \A i \in DOMAIN pages :
        process_transactions(pages[i].raw, PageMetadata, pages[i].price).processed # <<>>

(***************************************************************************)
(* C6.  After a network fetch that succeeded with a non-empty list, every  *)
(* later call returns those same records with success and sends no         *)
(* request, as long as clear_cache has not returned true; once it has, the *)
(* next call goes to the network again.                                    *)
(***************************************************************************)
C6_CacheServesUntilCleared ==
  /\ pc = "loop" => pinned_before = <<>>
  /\ (Returned /\ pinned_before # <<>>) =>
        /\ result.success
        /\ result.error = "None"
        /\ result.transactions = pinned_before
        /\ netlog = <<>>
  /\ (Returned /\ cleared_before /\ api_key) => netlog # <<>>

C6_Witness ==
  /\ Returned
  /\ served = "cache"
  /\ pinned_before # <<>>
  /\ \E i \in DOMAIN result.transactions : result.transactions[i].timestamp.microsecond # 0

(***************************************************************************)
(* C7.  Every record process_transactions emits, a network fetch returns   *)
(* or the cache holds is worth at least 1000 USD; a record worth less is   *)
(* in none of them, and a record worth exactly 1000 is kept.               *)
(***************************************************************************)
C7_MinimumValue ==
  /\ \A r \in Range(all_transactions) \cup Range(result.transactions) \cup CachedRecords :
        AtLeast(r.value_usd, MIN_VALUE_USD)
  /\ (Returned /\ served = "network" /\ result.success) =>
        Len(result.transactions) = KeptCount(pages)

C7_Witness ==
  /\ Returned
  /\ served = "network"
  /\ result.success
  /\ \E r \in Range(result.transactions) :
        r.value_usd.n = MIN_VALUE_USD * Pow10(r.value_usd.d)
  /\ \E i \in DOMAIN pages : \E j \in DOMAIN pages[i].raw :
        Less(ValueOn(pages[i], j), MIN_VALUE_USD)

(***************************************************************************)
(* C8.  save_to_cache followed by load_from_cache gives back the N records *)
(* saved, in the same order, each with the same timestamp and the same     *)
(* values in every other field; save_to_cache leaves the records it is     *)
(* given as they were.                                                     *)
(***************************************************************************)
C8_CacheRoundTrip ==
  /\ cache_file.exists =>
        /\ load_from_cache(cache_file).found
        /\ Len(load_from_cache(cache_file).transactions) = Len(saved)
        /\ \A i \in DOMAIN saved : load_from_cache(cache_file).transactions[i] = saved[i]
  /\ (Returned /\ served = "network" /\ result.success) =>
        /\ result.transactions = saved
        /\ \A i \in DOMAIN saved : IsDatetime(saved[i].timestamp)

C8_Witness ==
  /\ Returned
  /\ served = "network"
  /\ cache_file.exists
  /\ Len(saved) = 2
  /\ \E i \in DOMAIN saved :
        saved[i].timestamp.microsecond # 0 /\ saved[i].timestamp.tzinfo = "UTC"
  /\ \E i \in DOMAIN saved : saved[i].timestamp.tzinfo = "None"

(***************************************************************************)
(* C9.  clear_cache without a cache file returns false and changes         *)
(* nothing; with a cache file it returns true and removes the file, and    *)
(* load_from_cache reports absent from then on, until the next             *)
(* save_to_cache.                                                          *)
(***************************************************************************)
C9_ClearCache ==
  /\ last_op = "clear" =>
        /\ cache_before.exists => (clear_returned /\ ~ cache_file.exists)
        /\ ~ cache_before.exists => (~ clear_returned /\ cache_file = cache_before)
  /\ cleared =>
        /\ ~ load_from_cache(cache_file).found
        /\ ~ cached_truthy(load_from_cache(cache_file))

C9_Witness ==
  /\ last_op = "clear"
  /\ cache_before.exists
  /\ cache_before.transactions # <<>>
  /\ clear_returned
  /\ cleared

(***************************************************************************)
(* C10.  A record of a fetched page whose timestamp cannot be parsed makes *)
(* the call return failure and write no cache, whatever the record is      *)
(* worth.                                                                  *)
(* As stated this fails: the value filter (line 172) runs before the       *)
(* timestamp is parsed (line 176), so such a record worth less than 1000   *)
(* is skipped and the call can succeed.                                    *)
(***************************************************************************)
BadTimestampOn(p, j) == Unparseable(timestamp_string(p.raw[j]))

C10_BadTimestampAlwaysFails ==
  (Returned /\ served = "network" /\
   \E i \in DOMAIN pages : \E j \in DOMAIN pages[i].raw : BadTimestampOn(pages[i], j)) =>
     /\ ~ result.success
     /\ cache_file = cache_before

\* C10, amended: a record of a fetched page that is worth at least 1000 USD
\* and whose timestamp cannot be parsed makes the call return failure and
\* write no cache; no record with an unparseable timestamp is ever returned
\* or cached.  (A record worth less is skipped before its timestamp is read.)
C10_KeptBadTimestampFails ==
  /\ (Returned /\ served = "network" /\
      \E i \in DOMAIN pages : \E j \in DOMAIN pages[i].raw :
         BadTimestampOn(pages[i], j) /\ AtLeast(ValueOn(pages[i], j), MIN_VALUE_USD)) =>
        /\ ~ result.success
        /\ result.transactions = <<>>
        /\ result.error # "None"
        /\ cache_file = cache_before
  /\ \A r \in Range(all_transactions) \cup Range(result.transactions) :
        r.timestamp.date # ""
  /\ \A r \in CachedRecords : ~ Unparseable(r.timestamp)

C10_Witness ==
  /\ Returned
  /\ result.error = TIMESTAMP_ERROR
  /\ Len(pages) = 2
  /\ ClassifiedOf(SubSeq(pages, 1, 1)) # <<>>
  /\ \E j \in DOMAIN pages[2].raw :
        BadTimestampOn(pages[2], j) /\ AtLeast(ValueOn(pages[2], j), MIN_VALUE_USD)

(***************************************************************************)
(* C11.  A call made without an API key that is not served from the cache  *)
(* returns ([], False, the missing-key message), a message no network      *)
(* failure produces; it has sent no request, neither for a transfer page   *)
(* nor for the vault prices, and the cache file is as it was when the call *)
(* began.                                                                  *)
(***************************************************************************)
C11_MissingKeyFailsFast ==
  /\ (pc = "loop" /\ ~ api_key) => netlog = <<>>
  /\ (Returned /\ served = "network" /\ ~ api_key) =>
       /\ result.transactions = <<>>
       /\ ~ result.success
       /\ result.error = MISSING_KEY_ERROR
       /\ result.error \notin FetchErrors \cup {TIMESTAMP_ERROR}
       /\ netlog = <<>>
       /\ cache_file = cache_before

C11_Witness ==
  /\ Returned
  /\ served = "network"
  /\ ~ api_key
  /\ result.error = MISSING_KEY_ERROR
  /\ Len(pages) = 1

(***************************************************************************)
(* C12.  The list a successful fetch_all_transactions returns, and the     *)
(* list it leaves in the cache file, never hold two records with the same  *)
(* signature.                                                              *)
(***************************************************************************)
C12_NoDuplicateSignatures ==
  (Returned /\ result.success) =>
     /\ \A i, j \in DOMAIN result.transactions :
          i # j => result.transactions[i].signature # result.transactions[j].signature
     /\ cache_file.exists =>
          \A i, j \in DOMAIN cache_file.transactions :
            i # j => cache_file.transactions[i].signature
                       # cache_file.transactions[j].signature

(***************************************************************************)
(* Vocabulary of the dashboard properties: the deltas of a snapshot, in    *)
(* integers.                                                               *)
(***************************************************************************)
AbsInt(k) == IF k < 0 THEN 0 - k ELSE k

\* (totalSupply - totalSupplyLiquidity) / 10^decimals x price
SupplyUsd(v) ==
  [n |-> (v.totalSupply - v.totalSupplyLiquidity) * v.supplyToken.price.n,
   d |-> v.supplyToken.decimals + v.supplyToken.price.d]

BorrowUsd(v) ==
  [n |-> (v.totalBorrow - v.totalBorrowLiquidity) * v.borrowToken.price.n,
   d |-> v.borrowToken.decimals + v.borrowToken.price.d]

RewardsUsd(t) ==
  [n |-> (t.totalAssets - t.liquiditySupplyData.supply) * t.asset.price.n,
   d |-> t.asset.decimals + t.asset.price.d]

\* |x| > m
MagnitudeOver(x, m) == AbsInt(x.n) > m * Pow10(x.d)

\* x > m
ValueOver(x, m) == x.n > m * Pow10(x.d)

VaultPastFloor(v) == MagnitudeOver(SupplyUsd(v), 100) \/ MagnitudeOver(BorrowUsd(v), 100)

\* the vault rows and lending rows of the session made of a snapshot
VaultRowsOf(v) == {i \in DOMAIN vault_data.rows : vault_data.rows[i]["Vault ID"] = v.id}

LendingRowsOf(t) ==
  {i \in DOMAIN lending_data.rows : lending_data.rows[i]["Lending ID"] = t.id}

\* Fetch Fresh Data has stored the frames made of the answers of the services
Stored == vault_data # None /\ lending_data # None

(***************************************************************************)
(* C13.  The vault frame holds a row for a vault snapshot exactly when     *)
(* |supply USD| > 100 or |borrow USD| > 100, and the lending frame a row   *)
(* for a token exactly when |rewards USD| > 100; a snapshot past neither   *)
(* has no row, a value of exactly 100 being not past the floor; a vault    *)
(* row carries the signed amount and USD value of both its sides, whether  *)
(* or not that side is past the floor.                                     *)
(***************************************************************************)
C13_NoiseFloor ==
  Stored =>
    /\ \A k \in DOMAIN vaults_api :
         (VaultRowsOf(vaults_api[k]) # {}) <=> VaultPastFloor(vaults_api[k])
    /\ Len(vault_data.rows)
         = Cardinality({k \in DOMAIN vaults_api : VaultPastFloor(vaults_api[k])})
    /\ \A k \in DOMAIN vaults_api : \A i \in VaultRowsOf(vaults_api[k]) :
         /\ vault_data.rows[i]["Supply Delta USD"] = SupplyUsd(vaults_api[k])
         /\ vault_data.rows[i]["Borrow Delta USD"] = BorrowUsd(vaults_api[k])
         /\ vault_data.rows[i]["Supply Delta Amount"]
              = [n |-> vaults_api[k].totalSupply - vaults_api[k].totalSupplyLiquidity,
                 d |-> vaults_api[k].supplyToken.decimals]
         /\ vault_data.rows[i]["Borrow Delta Amount"]
              = [n |-> vaults_api[k].totalBorrow - vaults_api[k].totalBorrowLiquidity,
                 d |-> vaults_api[k].borrowToken.decimals]
    /\ \A k \in DOMAIN lendings_api :
         (LendingRowsOf(lendings_api[k]) # {})
           <=> MagnitudeOver(RewardsUsd(lendings_api[k]), 100)
    /\ Len(lending_data.rows)
         = Cardinality({k \in DOMAIN lendings_api :
                          MagnitudeOver(RewardsUsd(lendings_api[k]), 100)})
    /\ \A k \in DOMAIN lendings_api : \A i \in LendingRowsOf(lendings_api[k]) :
         lending_data.rows[i]["Rewards USD"] = RewardsUsd(lendings_api[k])

\* a vault at 100 and -100 USD without a row, a vault with a row whose borrow
\* side is worth 0, and a lending token at exactly 100 USD without a row
C13_Witness ==
  /\ Stored
  /\ \E k \in DOMAIN vaults_api :
       /\ SupplyUsd(vaults_api[k]) = [n |-> 1000, d |-> 1]
       /\ BorrowUsd(vaults_api[k]) = [n |-> 0 - 10000, d |-> 2]
       /\ VaultRowsOf(vaults_api[k]) = {}
  /\ \E i \in DOMAIN vault_data.rows :
       /\ vault_data.rows[i]["Supply Delta USD"] = [n |-> 150, d |-> 0]
       /\ vault_data.rows[i]["Borrow Delta USD"].n = 0
       /\ vault_data.rows[i]["Borrow Delta Amount"] = [n |-> 700000, d |-> 1]
  /\ \E k \in DOMAIN lendings_api :
       /\ RewardsUsd(lendings_api[k]) = [n |-> 10000, d |-> 2]
       /\ LendingRowsOf(lendings_api[k]) = {}

\* the priority list has a line of this type and item
Listed(type, item) ==
  \E j \in DOMAIN view.priority_df :
    /\ view.priority_df[j]["Type"] = type
    /\ view.priority_df[j]["Item"] = item

\* the priority list has this line, and no line of the type and item says
\* anything else
ListedAs(type, item, usd, priority) ==
  /\ Listed(type, item)
  /\ \A j \in DOMAIN view.priority_df :
       (view.priority_df[j]["Type"] = type /\ view.priority_df[j]["Item"] = item)
       => /\ view.priority_df[j]["Amount USD"] = usd
          /\ view.priority_df[j]["Priority"] = priority

Magnitude(x) == [n |-> AbsInt(x.n), d |-> x.d]

(***************************************************************************)
(* C14.  The priority list of a run that shows it: the supply side of a    *)
(* vault row is listed High when its USD value is over 300000, Medium when *)
(* it is over 100000 and at most 300000, and is not listed otherwise; the  *)
(* borrow side is listed High when its absolute USD value is over 100000,  *)
(* Medium when that is over 50000 and at most 100000, and is not listed    *)
(* otherwise; a lending row is listed High over 300000, Medium over 100000 *)
(* and at most 300000, and is not listed otherwise.  The list has no other *)
(* line.                                                                   *)
(***************************************************************************)
C14_PriorityTiers ==
  view.status = "shown" =>
    /\ \A i \in DOMAIN vault_data.rows :
         LET row == vault_data.rows[i]
             supply == row["Supply Delta USD"]
             borrow == row["Borrow Delta USD"]
         IN  /\ ValueOver(supply, 300000)
                  => ListedAs("Vault Supply", row["Vault Pair"], supply, "High")
             /\ (ValueOver(supply, 100000) /\ ~ ValueOver(supply, 300000))
                  => ListedAs("Vault Supply", row["Vault Pair"], supply, "Medium")
             /\ ~ ValueOver(supply, 100000) => ~ Listed("Vault Supply", row["Vault Pair"])
             /\ MagnitudeOver(borrow, 100000)
                  => ListedAs("Vault Borrow", row["Vault Pair"], Magnitude(borrow), "High")
             /\ (MagnitudeOver(borrow, 50000) /\ ~ MagnitudeOver(borrow, 100000))
                  => ListedAs("Vault Borrow", row["Vault Pair"], Magnitude(borrow), "Medium")
             /\ ~ MagnitudeOver(borrow, 50000) => ~ Listed("Vault Borrow", row["Vault Pair"])
    /\ \A i \in DOMAIN lending_data.rows :
         LET row == lending_data.rows[i]
             rewards == row["Rewards USD"]
         IN  /\ ValueOver(rewards, 300000)
                  => ListedAs("Lending", row["Token"], rewards, "High")
             /\ (ValueOver(rewards, 100000) /\ ~ ValueOver(rewards, 300000))
                  => ListedAs("Lending", row["Token"], rewards, "Medium")
             /\ ~ ValueOver(rewards, 100000) => ~ Listed("Lending", row["Token"])
    /\ Len(view.priority_df)
         = Cardinality({i \in DOMAIN vault_data.rows :
                          ValueOver(vault_data.rows[i]["Supply Delta USD"], 100000)})
           + Cardinality({i \in DOMAIN vault_data.rows :
                            MagnitudeOver(vault_data.rows[i]["Borrow Delta USD"], 50000)})
           + Cardinality({i \in DOMAIN lending_data.rows :
                            ValueOver(lending_data.rows[i]["Rewards USD"], 100000)})

\* a borrow side of -100000.00 USD listed Medium, a supply side of exactly
\* 300000 USD listed Medium, and a borrow side of exactly 50000 USD not listed
C14_Witness ==
  /\ view.status = "shown"
  /\ \E i \in DOMAIN vault_data.rows :
       /\ vault_data.rows[i]["Borrow Delta USD"] = [n |-> 0 - 10000000, d |-> 2]
       /\ vault_data.rows[i]["Supply Delta USD"] = [n |-> 3000000, d |-> 1]
       /\ ListedAs("Vault Borrow", vault_data.rows[i]["Vault Pair"],
                   [n |-> 10000000, d |-> 2], "Medium")
       /\ Listed("Vault Supply", vault_data.rows[i]["Vault Pair"])
  /\ \E i \in DOMAIN vault_data.rows :
       /\ vault_data.rows[i]["Borrow Delta USD"] = [n |-> 50000, d |-> 0]
       /\ ~ Listed("Vault Borrow", vault_data.rows[i]["Vault Pair"])

(***************************************************************************)
(* C15.  Alerts and priority tiers go by the absolute value of a delta,    *)
(* for the supply side and the borrow side of a vault row and for a        *)
(* lending row alike: a row is among the alerts exactly when the absolute  *)
(* value is over the alert threshold, and in the priority list exactly     *)
(* when the absolute value is over the Medium threshold.                   *)
(***************************************************************************)
C15_AbsoluteValueEverywhere ==
  view.status = "shown" =>
    /\ \A i \in DOMAIN vault_data.rows :
         LET row == vault_data.rows[i]
         IN  /\ MagnitudeOver(row["Supply Delta USD"], 300000)
                  <=> row \in Range(view.alerts.high_vaults)
             /\ MagnitudeOver(row["Borrow Delta USD"], 100000)
                  <=> row \in Range(view.alerts.high_borrows)
             /\ MagnitudeOver(row["Supply Delta USD"], 100000)
                  <=> Listed("Vault Supply", row["Vault Pair"])
             /\ MagnitudeOver(row["Borrow Delta USD"], 50000)
                  <=> Listed("Vault Borrow", row["Vault Pair"])
    /\ \A i \in DOMAIN lending_data.rows :
         LET row == lending_data.rows[i]
         IN  /\ MagnitudeOver(row["Rewards USD"], 300000)
                  <=> row \in Range(view.alerts.high_lending)
             /\ MagnitudeOver(row["Rewards USD"], 100000)
                  <=> Listed("Lending", row["Token"])

RECURSIVE SumInts(_)
SumInts(q) == IF q = <<>> THEN 0 ELSE Head(q) + SumInts(Tail(q))

\* a raw difference in hundredths of a token, 0 unless it is positive
PositiveHundredths(difference, decimals) ==
  IF difference > 0 THEN difference * Pow10(2 - decimals) ELSE 0

\* the positive deltas of the answered snapshots that go to bucket t, in
\* hundredths
BucketSum(t) ==
  SumInts([k \in DOMAIN vaults_api |->
             (IF t = "SOL" /\ vaults_api[k].supplyToken.symbol = "WSOL"
              THEN PositiveHundredths(
                     vaults_api[k].totalSupply - vaults_api[k].totalSupplyLiquidity,
                     vaults_api[k].supplyToken.decimals)
              ELSE 0)
             + (IF t \in {"USDC", "USDG", "EURC", "SOL"}
                   /\ vaults_api[k].borrowToken.symbol = t
                THEN PositiveHundredths(
                       vaults_api[k].totalBorrow - vaults_api[k].totalBorrowLiquidity,
                       vaults_api[k].borrowToken.decimals)
                ELSE 0)])
  + SumInts([k \in DOMAIN lendings_api |->
               IF t \in {"USDC", "USDG", "USDT", "EURC", "USDS"}
                  /\ lendings_api[k].asset.symbol = t
               THEN PositiveHundredths(
                      lendings_api[k].totalAssets
                        - lendings_api[k].liquiditySupplyData.supply,
                      lendings_api[k].asset.decimals)
               ELSE 0])

\* the price of the first answered vault whose supply asset is WSOL, else 150
ResolvedNativePrice ==
  LET wsol == {k \in DOMAIN vaults_api : vaults_api[k].supplyToken.symbol = "WSOL"}
  IN  IF wsol = {} THEN [n |-> 150, d |-> 0]
      ELSE vaults_api[CHOOSE k \in wsol : \A j \in wsol : k <= j].supplyToken.price

(***************************************************************************)
(* C16.  In a pending rewards summary that was computed, the buckets are   *)
(* USDC, USDG, SOL, EURC, USDS and USDT and no other; the amount of each   *)
(* is the sum of the strictly positive deltas that go to it, a negative    *)
(* delta taking nothing off, so no amount is negative; the summary has one *)
(* line for each bucket with a positive amount, carrying that amount, and  *)
(* valued at the amount times the resolved native price for SOL and at the *)
(* amount itself for every other bucket.                                   *)
(***************************************************************************)
C16_PendingSumsPositiveDeltas ==
  (view.status = "shown" /\ view.summary.status # "error") =>
    LET pending == view.summary.pending_rewards
        lines == view.summary.summary_df
    IN  /\ DOMAIN pending = {"USDC", "USDG", "SOL", "EURC", "USDS", "USDT"}
        /\ \A t \in DOMAIN pending :
             /\ pending[t].n >= 0
             /\ pending[t].n * Pow10(2 - pending[t].d) = BucketSum(t)
             /\ BucketSum(t) > 0 <=> \E j \in DOMAIN lines : lines[j]["Token"] = t
        /\ Len(lines) = Cardinality({t \in DOMAIN pending : BucketSum(t) > 0})
        /\ \A j \in DOMAIN lines :
             /\ lines[j]["Token"] \in DOMAIN pending
             /\ lines[j]["Amount Required"] = pending[lines[j]["Token"]]
             /\ lines[j]["Token"] # "SOL" =>
                  lines[j]["USD Value"].n * Pow10(2 - lines[j]["USD Value"].d)
                    = BucketSum(lines[j]["Token"])
             /\ lines[j]["Token"] = "SOL" =>
                  lines[j]["USD Value"].n
                      * Pow10(2 + ResolvedNativePrice.d - lines[j]["USD Value"].d)
                    = BucketSum("SOL") * ResolvedNativePrice.n

\* a vault with a negative USDG delta on its borrow side and a lending token
\* with a positive USDG delta: the USDG bucket holds the positive one alone,
\* and the SOL bucket is valued at the price of the vault
C16_Witness ==
  /\ view.status = "shown"
  /\ view.summary.status = "shown"
  /\ \E k \in DOMAIN vaults_api :
       /\ vaults_api[k].borrowToken.symbol = "USDG"
       /\ vaults_api[k].totalBorrow < vaults_api[k].totalBorrowLiquidity
  /\ \E k \in DOMAIN lendings_api :
       /\ lendings_api[k].asset.symbol = "USDG"
       /\ view.summary.pending_rewards["USDG"]
            = [n |-> lendings_api[k].totalAssets
                       - lendings_api[k].liquiditySupplyData.supply,
               d |-> 0]
  /\ view.summary.pending_rewards["USDG"].n > 0
  /\ \E j \in DOMAIN view.summary.summary_df :
       /\ view.summary.summary_df[j]["Token"] = "SOL"
       /\ view.summary.summary_df[j]["USD Value"] = [n |-> 3000000, d |-> 1]

\* a snapshot under the name of a pair, or of a symbol, that the mappings list
Mapped(v) ==
  [v EXCEPT !.supplyToken.symbol = "WSOL", !.borrowToken.symbol = "USDC"]

MappedToken(t) == [t EXCEPT !.asset.symbol = "USDC"]

\* a transfer with a tagged address on both sides
Tagged(tx) ==
  [tx EXCEPT !.from_address = "5AZYLkiU4SPYDeRMcPbPRPmiz2Ny85jWFeV4xmQsVBNo",
             !.to_address = "5AZYLkiU4SPYDeRMcPbPRPmiz2Ny85jWFeV4xmQsVBNo"]

(***************************************************************************)
(* C17.  A vault whose pair VAULT_MAPPING does not list has its row, with  *)
(* team "Unknown" and type "Unknown", whenever the same snapshot under a   *)
(* listed pair has one; a lending token whose symbol LENDING_MAPPING does  *)
(* not list has its row, with team "Unknown", whenever the same snapshot   *)
(* under a listed symbol has one; a transfer whose counterparty            *)
(* ADDRESS_TAGS does not list is returned by process_transactions, with    *)
(* team "Unknown", whenever the same transfer between tagged addresses is; *)
(* and none of the three raises for being unlisted.                        *)
(***************************************************************************)
C17_UnmappedIsUnknown ==
  /\ Stored =>
       /\ \A k \in DOMAIN vaults_api :
            (vaults_api[k].supplyToken.symbol \o "/" \o vaults_api[k].borrowToken.symbol)
               \notin DOMAIN VAULT_MAPPING
            => /\ Len(process_vault_data(<<vaults_api[k]>>))
                    = Len(process_vault_data(<<Mapped(vaults_api[k])>>))
               /\ VaultRowsOf(vaults_api[k]) # {}
                    <=> process_vault_data(<<Mapped(vaults_api[k])>>) # <<>>
               /\ \A i \in VaultRowsOf(vaults_api[k]) :
                    /\ vault_data.rows[i]["Responsible Party"] = "Unknown"
                    /\ vault_data.rows[i]["Incentive Type"] = "Unknown"
       /\ \A k \in DOMAIN lendings_api :
            lendings_api[k].asset.symbol \notin DOMAIN LENDING_MAPPING
            => /\ LendingRowsOf(lendings_api[k]) # {}
                    <=> process_lending_data(<<MappedToken(lendings_api[k])>>) # <<>>
               /\ \A i \in LendingRowsOf(lendings_api[k]) :
                    lending_data.rows[i]["Responsible Party"] = "Unknown"
  /\ \A tx \in BatchRecords, price \in {150, 200} :
       LET cp == IF "flow" \in DOMAIN tx /\ tx.flow = "in"
                 THEN tx.from_address ELSE tx.to_address
           own == process_transactions(<<tx>>, PageMetadata, price)
           tagged == process_transactions(<<Tagged(tx)>>, PageMetadata, price)
       IN  cp \notin DOMAIN ADDRESS_TAGS
           => /\ own.raised = tagged.raised
              /\ Len(own.processed) = Len(tagged.processed)
              /\ \A i \in DOMAIN own.processed : own.processed[i].team = "Unknown"

\* the frames hold the row of the unlisted pair FOO/BAR and the row of the
\* unlisted symbol XYZ
C17_Witness ==
  /\ Stored
  /\ \E i \in DOMAIN vault_data.rows :
       /\ vault_data.rows[i]["Vault Pair"] = "FOO/BAR"
       /\ vault_data.rows[i]["Responsible Party"] = "Unknown"
  /\ \E i \in DOMAIN lending_data.rows :
       /\ lending_data.rows[i]["Token"] = "XYZ"
       /\ lending_data.rows[i]["Responsible Party"] = "Unknown"
  /\ \E tx \in BatchRecords :
       /\ tx.to_address \notin DOMAIN ADDRESS_TAGS
       /\ process_transactions(<<tx>>, PageMetadata, 200).processed # <<>>

\* the transfer of the batch a returned record was made of
TransferOf(r) == CHOOSE tx \in Range(batch) : tx.block_id = r.block_id

(***************************************************************************)
(* C18.  Every record process_transactions returns has type Inflow exactly *)
(* when the flow flag of its transfer is "in", and Outflow for any other   *)
(* or no flag; its counterparty is the transfer's from-address when the    *)
(* type is Inflow and its to-address when it is Outflow; its team is the   *)
(* tag of that counterparty, "Unknown" when the address has no tag.        *)
(***************************************************************************)
C18_DirectionAndCounterparty ==
  batch_pc = "returned" =>
  \A i \in DOMAIN batch_result.processed :
    LET r == batch_result.processed[i]
        tx == TransferOf(r)
    IN  /\ \E t \in Range(batch) : t.block_id = r.block_id
        /\ r.type \in {"Inflow", "Outflow"}
        /\ (r.type = "Inflow") <=> ("flow" \in DOMAIN tx /\ tx.flow = "in")
        /\ r.type = "Inflow" => r.counterparty = tx.from_address
        /\ r.type = "Outflow" => r.counterparty = tx.to_address
        /\ r.team = IF r.counterparty \in DOMAIN ADDRESS_TAGS
                    THEN ADDRESS_TAGS[r.counterparty] ELSE "Unknown"

\* an inflow, an outflow flagged "out" and a record without a flag, all returned
C18_Witness ==
  /\ batch_pc = "returned"
  /\ ~ batch_result.raised
  /\ Len(batch_result.processed) = 3
  /\ \E i \in DOMAIN batch_result.processed :
       /\ batch_result.processed[i].type = "Inflow"
       /\ batch_result.processed[i].team = "Fluid Team"
  /\ \E i \in DOMAIN batch_result.processed :
       /\ batch_result.processed[i].type = "Outflow"
       /\ batch_result.processed[i].team = "JUP Team"
  /\ \E i \in DOMAIN batch_result.processed :
       /\ "flow" \notin DOMAIN TransferOf(batch_result.processed[i])
       /\ batch_result.processed[i].type = "Outflow"
       /\ batch_result.processed[i].team = "Unknown"

\* the value the three asset classes give a transfer
ClassValue(tx) ==
  LET symbol == token_symbol(tx, PageMetadata.tokens)
  IN  IF symbol \in {"USDC", "USDT", "USDS", "USDG", "EURC"}
      THEN [n |-> amount(tx).n, d |-> amount(tx).d]
      ELSE IF symbol \in {"SOL", "WSOL"}
           THEN [n |-> amount(tx).n * batch_price, d |-> amount(tx).d]
           ELSE [n |-> IF "value" \in DOMAIN tx THEN tx.value ELSE 0, d |-> 0]

(***************************************************************************)
(* C19.  A returned record of a stablecoin (USDC, USDT, USDS, USDG, EURC)  *)
(* is valued at its amount, whatever value the source supplied; one of SOL *)
(* or WSOL at its amount times the price get_sol_price returned; one of    *)
(* any other symbol, "UNKNOWN" included, at the value the source supplied. *)
(* A transfer of such another symbol for which the source supplies no      *)
(* value is valued 0 and is not returned.                                  *)
(***************************************************************************)
C19_ValuationByAssetClass ==
  (batch_pc = "returned" /\ ~ batch_result.raised) =>
    /\ \A i \in DOMAIN batch_result.processed :
         batch_result.processed[i].value_usd
           = ClassValue(TransferOf(batch_result.processed[i]))
    /\ \A j \in DOMAIN batch :
         (\E i \in DOMAIN batch_result.processed :
            batch_result.processed[i].block_id = batch[j].block_id)
         <=> ClassValue(batch[j]).n >= 1000 * Pow10(ClassValue(batch[j]).d)
    /\ \A j \in DOMAIN batch :
         ( /\ token_symbol(batch[j], PageMetadata.tokens)
                \notin {"USDC", "USDT", "USDS", "USDG", "EURC", "SOL", "WSOL"}
           /\ "value" \notin DOMAIN batch[j] )
         => \A i \in DOMAIN batch_result.processed :
              batch_result.processed[i].block_id # batch[j].block_id

\* a stablecoin valued 7 by the source and returned at 2000, the 5 SOL
\* returned at 5 x 200, and the unvalued transfer of another token dropped
C19_Witness ==
  /\ batch_pc = "returned"
  /\ ~ batch_result.raised
  /\ batch = <<TxStableValued, TxNoValue, TxSol>>
  /\ batch_price = 200
  /\ Len(batch_result.processed) = 2
  /\ batch_result.processed[1].value_usd = [n |-> 2000000000, d |-> 6]
  /\ batch_result.processed[2].value_usd = [n |-> 1000000000, d |-> 6]

(***************************************************************************)
(* C20.  A side of a vault whose asset has decimals = 0 or price = 0 has   *)
(* the delta 0, in amount and in USD.                                      *)
(***************************************************************************)
C20_ZeroDecimalsOrPriceGivesZero ==
  Stored =>
    \A k \in DOMAIN vaults_api : \A i \in VaultRowsOf(vaults_api[k]) :
      /\ (vaults_api[k].supplyToken.decimals = 0 \/ vaults_api[k].supplyToken.price.n = 0)
         => /\ vault_data.rows[i]["Supply Delta Amount"].n = 0
            /\ vault_data.rows[i]["Supply Delta USD"].n = 0
      /\ (vaults_api[k].borrowToken.decimals = 0 \/ vaults_api[k].borrowToken.price.n = 0)
         => /\ vault_data.rows[i]["Borrow Delta Amount"].n = 0
            /\ vault_data.rows[i]["Borrow Delta USD"].n = 0

(***************************************************************************)
(* C20, amended.  A side of a vault whose asset has price = 0 has the USD  *)
(* value 0 and the amount (total - liquidity) / 10^decimals; a side whose  *)
(* asset has decimals = 0 has the amount total - liquidity and the USD     *)
(* value (total - liquidity) x price.  Neither is an error: the vault has  *)
(* its row whenever a side is past the noise floor.                        *)
(***************************************************************************)
C20_ZeroPriceGivesZeroUsd ==
  Stored =>
    \A k \in DOMAIN vaults_api :
      LET v == vaults_api[k]
      IN  /\ VaultPastFloor(v) => VaultRowsOf(v) # {}
          /\ \A i \in VaultRowsOf(v) :
               /\ v.supplyToken.price.n = 0 =>
                    /\ vault_data.rows[i]["Supply Delta USD"].n = 0
                    /\ vault_data.rows[i]["Supply Delta Amount"]
                         = [n |-> v.totalSupply - v.totalSupplyLiquidity,
                            d |-> v.supplyToken.decimals]
               /\ v.borrowToken.price.n = 0 =>
                    /\ vault_data.rows[i]["Borrow Delta USD"].n = 0
                    /\ vault_data.rows[i]["Borrow Delta Amount"]
                         = [n |-> v.totalBorrow - v.totalBorrowLiquidity,
                            d |-> v.borrowToken.decimals]
               /\ v.supplyToken.decimals = 0 =>
                    /\ vault_data.rows[i]["Supply Delta Amount"]
                         = [n |-> v.totalSupply - v.totalSupplyLiquidity, d |-> 0]
                    /\ vault_data.rows[i]["Supply Delta USD"]
                         = [n |-> (v.totalSupply - v.totalSupplyLiquidity)
                                    * v.supplyToken.price.n,
                            d |-> v.supplyToken.price.d]
               /\ v.borrowToken.decimals = 0 =>
                    /\ vault_data.rows[i]["Borrow Delta Amount"]
                         = [n |-> v.totalBorrow - v.totalBorrowLiquidity, d |-> 0]
                    /\ vault_data.rows[i]["Borrow Delta USD"]
                         = [n |-> (v.totalBorrow - v.totalBorrowLiquidity)
                                    * v.borrowToken.price.n,
                            d |-> v.borrowToken.price.d]

\* the row of a vault whose supply asset has no decimals (150 of it, worth
\* 150 USD) and whose borrow asset has the price 0 (70000.0 of it, worth 0)
C20_Witness ==
  /\ Stored
  /\ \E k \in DOMAIN vaults_api : \E i \in VaultRowsOf(vaults_api[k]) :
       /\ vaults_api[k].supplyToken.decimals = 0
       /\ vaults_api[k].borrowToken.price.n = 0
       /\ vault_data.rows[i]["Supply Delta Amount"] = [n |-> 150, d |-> 0]
       /\ vault_data.rows[i]["Supply Delta USD"] = [n |-> 150, d |-> 0]
       /\ vault_data.rows[i]["Borrow Delta Amount"] = [n |-> 700000, d |-> 1]
       /\ vault_data.rows[i]["Borrow Delta USD"] = [n |-> 0, d |-> 1]

\* the positions of the vaults of a list whose supply asset is WSOL
WsolPositions(vaults) ==
  { i \in DOMAIN vaults :
      /\ "supplyToken" \in DOMAIN vaults[i]
      /\ "symbol" \in DOMAIN vaults[i].supplyToken
      /\ vaults[i].supplyToken.symbol = "WSOL" }

HasNoTime(tx) == "time" \notin DOMAIN tx \/ tx.time.date = ""

(***************************************************************************)
(* C21.  get_sol_price returns the quoted price of the first vault, in     *)
(* list order, whose supply asset is WSOL; it returns 150 when the answer  *)
(* lists no such vault and 150 when the lookup fails.  A failed lookup     *)
(* never makes the classification of the page fail: the call raises only   *)
(* for a record without a readable time.                                   *)
(***************************************************************************)
C21_SolPriceFirstWsolOrFallback ==
  batch_pc = "returned" =>
    LET wsol == WsolPositions(batch_response.vaults) IN
    /\ (batch_response.ok /\ wsol # {}) =>
         \E i \in wsol :
           /\ \A j \in wsol : i <= j
           /\ batch_price = batch_response.vaults[i].supplyToken.price
    /\ (batch_response.ok /\ wsol = {}) => batch_price = 150
    /\ ~ batch_response.ok => batch_price = 150
    /\ batch_result.raised => \E i \in DOMAIN batch : HasNoTime(batch[i])

\* the lookup failed, and the page was classified at 150 all the same: its
\* records came back
C21_Witness ==
  /\ batch_pc = "returned"
  /\ ~ batch_response.ok
  /\ batch_price = 150
  /\ ~ batch_result.raised
  /\ batch_result.processed # <<>>

(***************************************************************************)
(* C22.  fetch_all_transactions and fetch_from_solscan never raise to      *)
(* their caller.  Whatever went wrong inside the call (no key, a failed    *)
(* request, an exception of the classification), the call has returned,    *)
(* and what it returned is an explicit outcome: success = false comes with *)
(* the empty list and an error message, success = true with no error       *)
(* message.  A page that fetch_from_solscan reports as failed has no       *)
(* records.                                                                *)
(***************************************************************************)
C22_ExplicitOutcomes ==
  /\ \A i \in DOMAIN pages :
       /\ ~ pages[i].ok => pages[i].raw = <<>>
       /\ (~ pages[i].ok \/ RaisedOn(pages[i])) =>
             (Returned /\ ~ result.success)
  /\ Returned =>
       /\ result.success \in BOOLEAN
       /\ ~ result.success =>
             (result.transactions = <<>> /\ result.error # "None")
       /\ result.success => result.error = "None"

\* the classification of the second page raised inside the call, after the
\* first page had brought records: the call returned the failure
C22_Witness ==
  /\ Returned
  /\ Len(pages) = 2
  /\ pages[2].ok
  /\ RaisedOn(pages[2])
  /\ ClassifiedOf(SubSeq(pages, 1, 1)) # <<>>
  /\ result = [transactions |-> <<>>, success |-> FALSE, error |-> TIMESTAMP_ERROR]

\* answered page p brought records, and the minimum-value filter dropped
\* every one of them
AllDropped(p) ==
  /\ p.ok
  /\ p.raw # <<>>
  /\ \A j \in DOMAIN p.raw : ~ AtLeast(ValueOn(p, j), MIN_VALUE_USD)

(***************************************************************************)
(* C26.  Pagination ends on the raw record count of a page, not on the     *)
(* classified count: a page before the last that brings at least one raw   *)
(* record, all of them dropped by the minimum-value filter, does not end   *)
(* the call, and the next page is requested.                               *)
(***************************************************************************)
C26_DroppedPageDoesNotEndFetch ==
  \A i \in DOMAIN pages :
    (i < max_pages /\ AllDropped(pages[i])) =>
       /\ Len(pages) = i => (pc = "loop" /\ page = i + 1)
       /\ Returned => Len(pages) > i
       /\ Len(pages) > i => i + 1 \in Range(PagesRequested)

\* the only record of page 1 was dropped; page 2 was requested, and its
\* record is what the call returned
C26_Witness ==
  /\ Returned
  /\ max_pages = 2
  /\ Len(pages) = 2
  /\ AllDropped(pages[1])
  /\ PagesRequested = <<1, 2>>
  /\ result.success
  /\ result.transactions # <<>>
  /\ result.transactions = ClassifiedOf(SubSeq(pages, 2, 2))

\* the positions of the SOL and WSOL transfers of answered page p
NativeOn(p) ==
  { j \in DOMAIN p.raw : token_symbol(p.raw[j], PageMetadata.tokens) \in {"SOL", "WSOL"} }

(***************************************************************************)
(* C27.  Within one call of fetch_all_transactions the native-asset price  *)
(* is resolved once: every SOL or WSOL transfer of every page of the call  *)
(* is valued with the same price, whatever the price source quotes between *)
(* the page fetches.                                                       *)
(* The code resolves the price inside process_transactions (line 134),     *)
(* once for each page.                                                     *)
(***************************************************************************)
C27_OnePricePerCall ==
  \A i, j \in DOMAIN pages :
    \A a \in NativeOn(pages[i]), b \in NativeOn(pages[j]) :
      /\ pages[i].price = pages[j].price
      /\ (pages[i].raw[a] = pages[j].raw[b]) =>
            ValueOn(pages[i], a) = ValueOn(pages[j], b)

(***************************************************************************)
(* C23.  A failed fetch leaves the presentation state unchanged: a click   *)
(* on Fetch Fresh Data for which the vault or the lending fetch returned   *)
(* nothing leaves vault_data, lending_data and last_update as they were,   *)
(* and a click on Fetch Transactions for which fetch_all_transactions      *)
(* returned success = false leaves the transactions of the session as they *)
(* were.  (No other step of a session changes them either.)                *)
(***************************************************************************)
C23_FailedFetchKeepsState ==
  [][ /\ fresh_click' = "failed" =>
           UNCHANGED <<vault_data, lending_data, last_update>>
      /\ transactions_click' = "failed" => UNCHANGED transactions ]_vars

\* both buttons failed last, after both had succeeded: the session still
\* holds the frames, the time and the transactions of the clicks before,
\* and the run shows them
C23_Witness ==
  /\ fresh_click = "failed"
  /\ transactions_click = "failed"
  /\ Stored
  /\ vault_data.rows # <<>>
  /\ lending_data.rows # <<>>
  /\ last_update # None
  /\ transactions.in_session
  /\ transactions.value # <<>>
  /\ view.status = "shown"

\* the frames of the session are both made of this payload
FramesOf(payload) ==
  /\ ~ process_vault_data_raises(payload.vaults)
  /\ ~ process_lending_data_raises(payload.lendings)
  /\ vault_data = DataFrame(process_vault_data(payload.vaults))
  /\ lending_data = DataFrame(process_lending_data(payload.lendings))

(***************************************************************************)
(* C25.  After any sequence of clicks on Fetch Fresh Data the stored       *)
(* vault_data, lending_data and last_update come from the same fetch       *)
(* cycle: a click replaces all three or none of them, also when the        *)
(* processing of the fetched payload fails part-way.  So the three are     *)
(* unset together, and the two frames are those of one payload.            *)
(* The code assigns vault_data (line 183) before it processes the lending  *)
(* payload (line 184).                                                     *)
(***************************************************************************)
C25_SameFetchCycle ==
  /\ (vault_data = None) <=> (lending_data = None)
  /\ (lending_data = None) <=> (last_update = None)
  /\ Stored => \E payload \in Payloads : FramesOf(payload)

\* a USD value in hundredths
Hundredths(x) == x.n * Pow10(2 - x.d)

\* the sum, in hundredths, of what f makes of column key over the rows of a
\* party
PartySum(rows, party, key, f(_)) ==
  SumInts([i \in DOMAIN rows |->
             IF rows[i]["Responsible Party"] = party
             THEN f(Hundredths(rows[i][key])) ELSE 0])

Signed(k) == k

HasRows(rows, party) == \E i \in DOMAIN rows : rows[i]["Responsible Party"] = party

\* the table has exactly one row of the party, with these totals in hundredths
PartyRowIs(table, party, supply, borrow, lending) ==
  /\ Cardinality({j \in DOMAIN table : table[j]["Responsible Party"] = party}) = 1
  /\ \A j \in DOMAIN table :
       table[j]["Responsible Party"] = party =>
         /\ Hundredths(table[j]["Vault Supply"]) = supply
         /\ Hundredths(table[j]["Vault Borrow"]) = borrow
         /\ Hundredths(table[j]["Lending"]) = lending
         /\ Hundredths(table[j]["Total"]) = supply + borrow + lending

\* the table has a row for exactly the parties of the two frames, each with
\* the totals of the party
PartyTotals(table) ==
  /\ \A j \in DOMAIN table :
       \/ HasRows(vault_data.rows, table[j]["Responsible Party"])
       \/ HasRows(lending_data.rows, table[j]["Responsible Party"])
  /\ \A i \in DOMAIN SORTED_PARTIES :
       LET party == SORTED_PARTIES[i] IN
       (HasRows(vault_data.rows, party) \/ HasRows(lending_data.rows, party)) =>
         PartyRowIs(table, party,
                    PartySum(vault_data.rows, party, "Supply Delta USD", Signed),
                    PartySum(vault_data.rows, party, "Borrow Delta USD", AbsInt),
                    PartySum(lending_data.rows, party, "Rewards USD", Signed))

(***************************************************************************)
(* C24.  Totals per team, in the breakdown of the Overview and in the team *)
(* workload of the Analytics tab alike: for every team with a row in one   *)
(* of the frames, Vault Supply is the signed sum of the supply USD deltas  *)
(* of its vault rows, Vault Borrow the sum of the absolute values of their *)
(* borrow USD deltas, Lending the signed sum of the rewards USD of its     *)
(* lending rows, 0 where the team has no row in a category, and Total the  *)
(* sum of the three; no other team has a line.                             *)
(***************************************************************************)
C24_TeamTotals ==
  view.status = "shown" =>
    /\ PartyTotals(view.team_summary)
    /\ PartyTotals(view.team_workload)

\* a team with a positive supply delta, a negative borrow delta and lending
\* rewards, next to a team that has lending rows only
C24_Witness ==
  /\ view.status = "shown"
  /\ \E j \in DOMAIN view.team_summary :
       /\ view.team_summary[j]["Vault Supply"].n > 0
       /\ view.team_summary[j]["Vault Borrow"].n > 0
       /\ view.team_summary[j]["Lending"].n > 0
       /\ \E i \in DOMAIN vault_data.rows :
            /\ vault_data.rows[i]["Responsible Party"]
                 = view.team_summary[j]["Responsible Party"]
            /\ vault_data.rows[i]["Borrow Delta USD"].n < 0
  /\ \E j \in DOMAIN view.team_workload :
       /\ ~ HasRows(vault_data.rows, view.team_workload[j]["Responsible Party"])
       /\ view.team_workload[j]["Vault Supply"].n = 0
       /\ view.team_workload[j]["Vault Borrow"].n = 0
       /\ view.team_workload[j]["Lending"].n > 0

\* the sum, in hundredths, of a column of a table of team totals
TableSum(table, key) == SumInts([j \in DOMAIN table |-> Hundredths(table[j][key])])

\* the four overall figures agree with the table of team totals
OverallMatches(overall, table) ==
  /\ Hundredths(overall["Vault Borrow"]) = TableSum(table, "Vault Borrow")
  /\ Hundredths(overall["Total Outstanding"]) = TableSum(table, "Total")

(***************************************************************************)
(* C28.  The overall Vault Borrow figure of the sidebar and of the         *)
(* Overview is the sum over the teams of their Vault Borrow totals, and    *)
(* the overall Total Outstanding the sum over the teams of their Total,    *)
(* also when the borrow deltas of the vault rows have mixed signs.         *)
(* The overall figures take the absolute value of the net sum (lines 201,  *)
(* 203, 229), the team totals the sum of the absolute values (line 610).   *)
(***************************************************************************)
C28_OverallIsSumOfTeams ==
  view.status = "shown" =>
    /\ OverallMatches(view.quick_stats, view.team_summary)
    /\ OverallMatches(view.summary_cards, view.team_summary)

====
